---- MODULE Spec2Model ----
(***************************************************************************)
(* Nested git repository status aggregation.                               *)
(*                                                                         *)
(*   cli/src/modules/common/handlers/git.ts : the git-status,              *)
(*       git-diff-numstat and git-diff-file RPC handlers, the nested       *)
(*       repository discovery and the @@HAPI_REPO section framing.         *)
(*   web/src/lib/gitParsers.ts (src/unnamed/part_001) : the splitting of   *)
(*       the framed stream and the status aggregation.                     *)
(*                                                                         *)
(* Text is modelled as TLA+ strings, character by character: TLC           *)
(* evaluates Len, SubSeq and \o on strings.                                *)
(***************************************************************************)
EXTENDS Integers, Sequences, FiniteSets, TLC

VARIABLES
    \* ---- the handler side (git.ts) ----
    hPc,            \* "idle" | "direct" | "discover" | "fanout" | "nestedDiff" | "done"
    hReq,           \* the request being served: [op, staged, filePath, cwd] and what validatePath answered
    inFlight,       \* the git processes started and not yet returned
    procLog,        \* every git process the request started, in order: [args, cwd]
    procOutcomes,   \* how each returned process ended
    procResults,    \* the result runGitCommand gave for each returned process
    nestedRepos,    \* the list getNestedRepos returned to the request
    fan,            \* the fan-out loop: [outputs, errors, hasSuccess, idx]
    response,       \* what the handler returned: null or Some(response)
    scans,          \* discovery scans the request ran
    repoDiscoveryCache, \* baseCwd -> [repos, expiresAt]
    now,            \* Date.now()
    disk,           \* the file system
    \* ---- the parser side (gitParsers.ts) ----
    pPc,            \* "input" | "framed" | "split" | "built"
    pIn,            \* the input drawn at Init: frames to wrap, a raw stream, or git states
    statusOutput,   \* buildGitStatusFiles' first argument (the status stream)
    unstagedDiffOutput, \* its second argument (the numstat stream of git diff)
    stagedDiffOutput,   \* its third argument (the numstat stream of git diff --cached)
    pSections,      \* splitRepoSections(statusOutput)
    pAgg,           \* buildGitStatusFiles(statusOutput, ...)
    \* ---- one discovery scan, iteration by iteration (git.ts discoverNestedGitRepos) ----
    scanPc,         \* "rest" | "scanning" | "done"
    scanTree,       \* the file system scanned (a key of ScanTrees)
    scanRoot,       \* baseCwd
    scan,           \* the loop state: [queue, index, discovered, scannedDirectories]
    scanResult,     \* the list returned
    \* ---- the line loops of the parsers, iteration by iteration (gitParsers.ts) ----
    lnPc,           \* "rest" | "status" | "statusDone" | "numstat" | "numstatDone" | "mapped"
    lnIn,           \* the text given to the parser
    lnLines,        \* its non-empty lines
    lnIndex,        \* the line the loop is at
    lnStatus,       \* parseStatusSummaryV2's summary so far
    lnDiff,         \* parseNumStat's result so far
    lnStats,        \* createDiffStatsMap(lnDiff)
    \* ---- concurrent requests on one root (git.ts getNestedRepos and the fallbacks) ----
    cReq,           \* each request: where it is suspended and its local variables
    cHeap,          \* the arrays of repositories, by identity
    cCache,         \* repoDiscoveryCache.get(workingDirectory): null or Some([repos, expiresAt])
    cNow,           \* Date.now()
    cDisk,          \* the file system
    cFinished       \* the scans that returned: [id, list, tree, stable]

pvars == <<pPc, pIn, statusOutput, unstagedDiffOutput, stagedDiffOutput, pSections, pAgg>>
hvars == <<hPc, hReq, inFlight, procLog, procOutcomes, procResults, nestedRepos, fan, response, scans,
           repoDiscoveryCache, now, disk>>
svars == <<scanPc, scanTree, scanRoot, scan, scanResult>>
lvars == <<lnPc, lnIn, lnLines, lnIndex, lnStatus, lnDiff, lnStats>>
cvars == <<cReq, cHeap, cCache, cNow, cDisk, cFinished>>
vars == <<hvars, pvars, svars, lvars, cvars>>

----------------------------------------------------------------------------
(* JavaScript values *)

\* null / undefined, and a present value: optional values are <<>> or <<v>>.
null == <<>>
Some(v) == <<v>>
IsNull(o) == o = <<>>
\* o ?? d
Coalesce(o, d) == IF o = <<>> THEN d ELSE o[1]

Min(S) == CHOOSE x \in S : \A y \in S : x <= y
Max(S) == CHOOSE x \in S : \A y \in S : x >= y

\* F(v), with v evaluated once (a const binding).
Bind(v, F(_)) == CHOOSE r \in {F(x) : x \in {v}} : TRUE

----------------------------------------------------------------------------
(* JavaScript String methods *)

CharAt(s, i) == SubSeq(s, i, i)

\* s.startsWith(p)
StartsWith(s, p) == Len(p) <= Len(s) /\ SubSeq(s, 1, Len(p)) = p

\* s.endsWith(p)
EndsWith(s, p) == Len(p) <= Len(s) /\ SubSeq(s, Len(s) - Len(p) + 1, Len(s)) = p

\* s.includes(n)
Includes(s, n) == \E i \in 0..(Len(s) - Len(n)) : SubSeq(s, i + 1, i + Len(n)) = n

\* s.slice(n)
SliceFrom(s, n) == SubSeq(s, n + 1, Len(s))

\* The white space String.prototype.trim strips, within the modelled alphabet.
IsWhiteSpace(c) == c \in {" ", "\t", "\n", "\r"}

\* s.trim()
Trim(s) ==
    LET keep == {i \in 1..Len(s) : ~IsWhiteSpace(CharAt(s, i))}
    IN  IF keep = {} THEN "" ELSE SubSeq(s, Min(keep), Max(keep))

\* s.split(c) for a one-character separator c: always at least one piece.
SplitAt(s, c) ==
    LET pos == {i \in 1..Len(s) : CharAt(s, i) = c}
        n == Cardinality(pos)
        P(k) == IF k = 0 THEN 0
                ELSE IF k = n + 1 THEN Len(s) + 1
                ELSE CHOOSE i \in pos : Cardinality({j \in pos : j < i}) = k - 1
    IN  [k \in 1..(n + 1) |-> SubSeq(s, P(k - 1) + 1, P(k) - 1)]

\* parts.join(sep)
RECURSIVE Join(_, _)
Join(parts, sep) ==
    IF Len(parts) = 0 THEN ""
    ELSE IF Len(parts) = 1 THEN parts[1]
    ELSE parts[1] \o sep \o Join(Tail(parts), sep)

\* arr.filter(pred) is SelectSeq.

UpperCaseLetters == "ABCDEFGHIJKLMNOPQRSTUVWXYZ"
LowerCaseLetters == "abcdefghijklmnopqrstuvwxyz"

\* The index of character c in string s, 0 when absent.
IndexOfChar(s, c) ==
    LET at == {i \in 1..Len(s) : CharAt(s, i) = c}
    IN  IF at = {} THEN 0 ELSE Min(at)

\* The lower-case letter of each capital.
LowerCaseOf ==
    [c \in {CharAt(UpperCaseLetters, i) : i \in 1..26} |->
        CharAt(LowerCaseLetters, IndexOfChar(UpperCaseLetters, c))]

\* s.toLowerCase(), on ASCII letters.
RECURSIVE ToLowerCase(_)
ToLowerCase(s) ==
    IF s = "" THEN ""
    ELSE IF Len(s) = 1
    THEN IF s \in DOMAIN LowerCaseOf THEN LowerCaseOf[s] ELSE s
    ELSE ToLowerCase(SubSeq(s, 1, Len(s) \div 2)) \o ToLowerCase(SliceFrom(s, Len(s) \div 2))

----------------------------------------------------------------------------
(* encodeURIComponent / decodeURIComponent on ASCII                        *)

\* Code points 32..95 and 97..126 in order (code 96, the grave accent, cannot
\* be written in a TLA+ string and is outside the modelled alphabet).
AsciiLow == " !\"#$%&'()*+,-./0123456789:;<=>?@ABCDEFGHIJKLMNOPQRSTUVWXYZ[\\]^_"
AsciiHigh == "abcdefghijklmnopqrstuvwxyz{|}~"
HexDigits == "0123456789ABCDEF"

\* The code point of a modelled character.
CodeOf(c) ==
    IF c = "\t" THEN 9
    ELSE IF c = "\n" THEN 10
    ELSE IF c = "\r" THEN 13
    ELSE IF IndexOfChar(AsciiLow, c) > 0 THEN 31 + IndexOfChar(AsciiLow, c)
    ELSE 96 + IndexOfChar(AsciiHigh, c)

\* The modelled character of a code point, <<>> when it has none.
CharOf(n) ==
    IF n = 9 THEN Some("\t")
    ELSE IF n = 10 THEN Some("\n")
    ELSE IF n = 13 THEN Some("\r")
    ELSE IF n >= 32 /\ n <= 95 THEN Some(CharAt(AsciiLow, n - 31))
    ELSE IF n >= 97 /\ n <= 126 THEN Some(CharAt(AsciiHigh, n - 96))
    ELSE null

\* The characters encodeURIComponent leaves alone: A-Z a-z 0-9 - _ . ! ~ * ' ( )
UriUnreserved ==
    "ABCDEFGHIJKLMNOPQRSTUVWXYZabcdefghijklmnopqrstuvwxyz0123456789-_.!~*'()"

RECURSIVE encodeURIComponent(_)
encodeURIComponent(s) ==
    IF s = "" THEN ""
    ELSE LET c == CharAt(s, 1)
             n == CodeOf(c)
             enc == IF IndexOfChar(UriUnreserved, c) > 0 THEN c
                    ELSE "%" \o CharAt(HexDigits, (n \div 16) + 1) \o CharAt(HexDigits, (n % 16) + 1)
         IN  enc \o encodeURIComponent(SliceFrom(s, 1))

\* The value of a hexadecimal digit (either case), -1 for any other character.
HexValue(c) ==
    IF IndexOfChar(HexDigits, c) > 0 THEN IndexOfChar(HexDigits, c) - 1
    ELSE IF IndexOfChar("abcdef", c) > 0 THEN 9 + IndexOfChar("abcdef", c)
    ELSE -1

\* decodeURIComponent: [ok |-> TRUE, value |-> decoded], or [ok |-> FALSE] where
\* the built-in throws URIError (a '%' not followed by two hexadecimal digits, or
\* an escape that is no complete UTF-8 sequence; escapes of code points outside
\* the modelled alphabet are counted with these).
RECURSIVE decodeURIComponent(_)
decodeURIComponent(s) ==
    IF s = "" THEN [ok |-> TRUE, value |-> ""]
    ELSE IF CharAt(s, 1) # "%"
    THEN LET rest == decodeURIComponent(SliceFrom(s, 1))
         IN  IF rest.ok THEN [ok |-> TRUE, value |-> CharAt(s, 1) \o rest.value]
             ELSE [ok |-> FALSE]
    ELSE IF Len(s) < 3 \/ HexValue(CharAt(s, 2)) < 0 \/ HexValue(CharAt(s, 3)) < 0
    THEN [ok |-> FALSE]
    ELSE LET ch == CharOf(16 * HexValue(CharAt(s, 2)) + HexValue(CharAt(s, 3)))
             rest == decodeURIComponent(SliceFrom(s, 3))
         IN  IF ch = null \/ ~rest.ok THEN [ok |-> FALSE]
             ELSE [ok |-> TRUE, value |-> ch[1] \o rest.value]

----------------------------------------------------------------------------
(* Section framing *)

HAPI_REPO_SECTION_PREFIX == "@@HAPI_REPO "
HAPI_REPO_SECTION_END == "@@HAPI_REPO_END"

\* git.ts wrapRepoSectionOutput
wrapRepoSectionOutput(repoName, output) ==
    LET encodedRepo == encodeURIComponent(repoName)
        body == Trim(output)
    IN  IF body = ""
        THEN HAPI_REPO_SECTION_PREFIX \o encodedRepo \o "\n" \o HAPI_REPO_SECTION_END
        ELSE HAPI_REPO_SECTION_PREFIX \o encodedRepo \o "\n" \o body \o "\n" \o HAPI_REPO_SECTION_END

\* gitParsers.ts decodeRepoSectionName: the raw text when decoding throws.
decodeRepoSectionName(name) ==
    LET d == decodeURIComponent(name)
    IN  IF d.ok THEN d.value ELSE name

\* splitRepoSections' loop state: sections, currentRepo, currentLines, hasMarkers.
SplitStart == [sections |-> <<>>, currentRepo |-> null, currentLines |-> <<>>, hasMarkers |-> FALSE]

\* gitParsers.ts flushCurrentSection
flushCurrentSection(st) ==
    IF st.currentRepo = null THEN st
    ELSE [st EXCEPT !.sections = Append(st.sections,
                        [repo |-> st.currentRepo, output |-> Trim(Join(st.currentLines, "\n"))]),
                    !.currentRepo = null,
                    !.currentLines = <<>>]

\* One iteration of splitRepoSections' for loop.
SplitLine(st, line) ==
    IF StartsWith(line, HAPI_REPO_SECTION_PREFIX)
    THEN LET f == flushCurrentSection([st EXCEPT !.hasMarkers = TRUE])
             encodedRepo == Trim(SliceFrom(line, Len(HAPI_REPO_SECTION_PREFIX)))
         IN  [f EXCEPT !.currentRepo = Some(decodeRepoSectionName(encodedRepo)),
                       !.currentLines = <<>>]
    ELSE IF Trim(line) = HAPI_REPO_SECTION_END
    THEN flushCurrentSection([st EXCEPT !.hasMarkers = TRUE])
    ELSE IF st.currentRepo # null
    THEN [st EXCEPT !.currentLines = Append(st.currentLines, line)]
    ELSE IF ~st.hasMarkers
    THEN [st EXCEPT !.currentLines = Append(st.currentLines, line)]
    ELSE st

RECURSIVE SplitLoop(_, _, _)
SplitLoop(st, lines, i) ==
    IF i > Len(lines) THEN st ELSE SplitLoop(SplitLine(st, lines[i]), lines, i + 1)

\* splitRepoSections whose legacy section keeps the raw text untrimmed.
splitRepoSections_LegacyUntrimmed(rawOutput) ==
    LET st == SplitLoop(SplitStart, SplitAt(rawOutput, "\n"), 1)
    IN  IF st.hasMarkers THEN flushCurrentSection(st).sections
        ELSE <<[repo |-> null, output |-> rawOutput]>>

\* splitRepoSections without the flush after the loop.
splitRepoSections_DropsUnterminated(rawOutput) ==
    LET st == SplitLoop(SplitStart, SplitAt(rawOutput, "\n"), 1)
    IN  IF st.hasMarkers THEN st.sections
        ELSE <<[repo |-> null, output |-> Trim(rawOutput)]>>

\* gitParsers.ts splitRepoSections: a sequence of [repo, output], repo null or Some(name).
splitRepoSections(rawOutput) ==
    LET st == SplitLoop(SplitStart, SplitAt(rawOutput, "\n"), 1)
    IN  IF st.hasMarkers THEN flushCurrentSection(st).sections
        ELSE <<[repo |-> null, output |-> Trim(rawOutput)]>>

----------------------------------------------------------------------------
(* Status parsing (git status --porcelain=v2 --branch) *)

\* The regex atom '.': any character but a line terminator.
IsDot(c) == c \notin {"\n", "\r"}
\* \d
IsDigit(c) == IndexOfChar("0123456789", c) > 0
\* [0-9a-f]
IsHex(c) == IndexOfChar("0123456789abcdef", c) > 0

AllDots(s) == \A i \in 1..Len(s) : IsDot(CharAt(s, i))
AllDigits(s) == \A i \in 1..Len(s) : IsDigit(CharAt(s, i))

\* parseInt(s, 10) of a string of decimal digits.
RECURSIVE parseInt(_)
parseInt(s) ==
    IF s = "" THEN 0
    ELSE 10 * parseInt(SubSeq(s, 1, Len(s) - 1)) + (IndexOfChar("0123456789", CharAt(s, Len(s))) - 1)

\* /^<prefix>(.+)$/ : the captured group, or null.
MatchPrefixRest(line, prefix) ==
    LET rest == SliceFrom(line, Len(prefix))
    IN  IF StartsWith(line, prefix) /\ rest # "" /\ AllDots(rest) THEN Some(rest) ELSE null

\* BRANCH_OID_REGEX, BRANCH_HEAD_REGEX, BRANCH_UPSTREAM_REGEX
BRANCH_OID_REGEX(line) == MatchPrefixRest(line, "# branch.oid ")
BRANCH_HEAD_REGEX(line) == MatchPrefixRest(line, "# branch.head ")
BRANCH_UPSTREAM_REGEX(line) == MatchPrefixRest(line, "# branch.upstream ")

\* BRANCH_AB_REGEX /^# branch\.ab \+(\d+) -(\d+)$/ : <<ahead, behind>> as text, or null.
BRANCH_AB_REGEX(line) ==
    LET rest == SliceFrom(line, Len("# branch.ab +"))
        parts == SplitAt(rest, " ")
    IN  IF StartsWith(line, "# branch.ab +") /\ Len(parts) = 2
           /\ parts[1] # "" /\ AllDigits(parts[1])
           /\ StartsWith(parts[2], "-") /\ Len(parts[2]) > 1 /\ AllDigits(SliceFrom(parts[2], 1))
        THEN Some(<<parts[1], SliceFrom(parts[2], 1)>>)
        ELSE null

\* The index just past the run of [0-9a-f] that starts at index i.
RECURSIVE HexRunEnd(_, _)
HexRunEnd(line, i) ==
    IF i <= Len(line) /\ IsHex(CharAt(line, i)) THEN HexRunEnd(line, i + 1) ELSE i

\* The index after "<hex>+ " read at index i, 0 when the line has no such field there.
HexField(line, i) ==
    LET e == HexRunEnd(line, i)
    IN  IF i > 0 /\ e > i /\ CharAt(line, e) = " " THEN e + 1 ELSE 0

\* The index after "\d{6} " read at index i, 0 when the line has no such field there.
ModeField(line, i) ==
    IF i > 0 /\ Len(line) >= i + 6 /\ AllDigits(SubSeq(line, i, i + 5)) /\ CharAt(line, i + 6) = " "
    THEN i + 7 ELSE 0

\* "<tag> (.)(.) (.{4}) " at the head of a change line: the index after it, or 0.
ChangeHead(line, tag) ==
    IF Len(line) >= 10 /\ StartsWith(line, tag \o " ") /\ AllDots(SubSeq(line, 3, 4))
       /\ CharAt(line, 5) = " " /\ AllDots(SubSeq(line, 6, 9)) /\ CharAt(line, 10) = " "
    THEN 11 ELSE 0

\* ORDINARY_CHANGE_REGEX followed by parseOrdinaryChange: the entry, or null.
parseOrdinaryChange(line) ==
    LET p == HexField(line, HexField(line,
                 ModeField(line, ModeField(line, ModeField(line, ChangeHead(line, "1"))))))
        path == SubSeq(line, p, Len(line))
    IN  IF p > 0 /\ path # "" /\ AllDots(path)
        THEN Some([index |-> CharAt(line, 3), workingDir |-> CharAt(line, 4),
                   path |-> path, from |-> null])
        ELSE null

\* RENAME_COPY_REGEX followed by parseRenameCopy: the entry, or null. The two
\* trailing groups (.+)\t(.+) are greedy: the first runs to the last tab that
\* leaves both groups non-empty; it becomes 'from' and the second 'path'.
parseRenameCopy(line) ==
    LET p == HexField(line, HexField(line,
                 ModeField(line, ModeField(line, ModeField(line, ChangeHead(line, "2"))))))
        \* ([RC])(\d{1,3}) and a space
        scoreEnds == {e \in (p + 2)..(p + 4) :
                        /\ e <= Len(line)
                        /\ AllDigits(SubSeq(line, p + 1, e - 1))
                        /\ CharAt(line, e) = " "}
        q == IF p > 0 /\ CharAt(line, p) \in {"R", "C"} /\ scoreEnds # {}
             THEN Min(scoreEnds) + 1 ELSE 0
        tabs == {t \in (q + 1)..(Len(line) - 1) : CharAt(line, t) = "\t"}
    IN  IF q > 0 /\ tabs # {} /\ AllDots(SubSeq(line, q, Len(line)))
        THEN Some([index |-> CharAt(line, 3), workingDir |-> CharAt(line, 4),
                   from |-> Some(SubSeq(line, q, Max(tabs) - 1)),
                   path |-> SubSeq(line, Max(tabs) + 1, Len(line))])
        ELSE null

\* UNMERGED_REGEX followed by parseUnmerged: the entry, or null.
parseUnmerged(line) ==
    LET p == HexField(line, HexField(line, HexField(line,
                 ModeField(line, ModeField(line, ModeField(line, ModeField(line,
                     ChangeHead(line, "u"))))))))
        path == SubSeq(line, p, Len(line))
    IN  IF p > 0 /\ path # "" /\ AllDots(path)
        THEN Some([index |-> CharAt(line, 3), workingDir |-> CharAt(line, 4),
                   path |-> path, from |-> null])
        ELSE null

\* UNTRACKED_REGEX, IGNORED_REGEX
UNTRACKED_REGEX(line) == MatchPrefixRest(line, "? ")
IGNORED_REGEX(line) == MatchPrefixRest(line, "! ")

\* parseStatusSummaryV2's result before any line is read.
EmptySummary ==
    [files |-> <<>>, notAdded |-> <<>>, ignored |-> <<>>,
     branch |-> [oid |-> null, head |-> null, upstream |-> null, ahead |-> null, behind |-> null]]

\* One iteration of a loop that gives up on a malformed change line: the
\* summary is emptied when a "1 " line does not match its format.
ParseStatusLine_AbortOnMalformed(r, line) ==
    IF StartsWith(line, "# branch.head ")
    THEN IF BRANCH_HEAD_REGEX(line) # null
         THEN [r EXCEPT !.branch.head = BRANCH_HEAD_REGEX(line)] ELSE r
    ELSE IF StartsWith(line, "1 ")
    THEN IF parseOrdinaryChange(line) # null
         THEN [r EXCEPT !.files = Append(r.files, parseOrdinaryChange(line)[1])] ELSE EmptySummary
    ELSE IF StartsWith(line, "2 ")
    THEN IF parseRenameCopy(line) # null
         THEN [r EXCEPT !.files = Append(r.files, parseRenameCopy(line)[1])] ELSE r
    ELSE IF StartsWith(line, "u ")
    THEN IF parseUnmerged(line) # null
         THEN [r EXCEPT !.files = Append(r.files, parseUnmerged(line)[1])] ELSE r
    ELSE IF StartsWith(line, "? ")
    THEN IF UNTRACKED_REGEX(line) # null
         THEN [r EXCEPT !.notAdded = Append(r.notAdded, UNTRACKED_REGEX(line)[1])] ELSE r
    ELSE IF StartsWith(line, "! ")
    THEN IF IGNORED_REGEX(line) # null
         THEN [r EXCEPT !.ignored = Append(r.ignored, IGNORED_REGEX(line)[1])] ELSE r
    ELSE r

\* One iteration of parseStatusSummaryV2's for loop.
ParseStatusLine(r, line) ==
    IF StartsWith(line, "# branch.oid ")
    THEN IF BRANCH_OID_REGEX(line) # null
         THEN [r EXCEPT !.branch.oid = BRANCH_OID_REGEX(line)] ELSE r
    ELSE IF StartsWith(line, "# branch.head ")
    THEN IF BRANCH_HEAD_REGEX(line) # null
         THEN [r EXCEPT !.branch.head = BRANCH_HEAD_REGEX(line)] ELSE r
    ELSE IF StartsWith(line, "# branch.upstream ")
    THEN IF BRANCH_UPSTREAM_REGEX(line) # null
         THEN [r EXCEPT !.branch.upstream = BRANCH_UPSTREAM_REGEX(line)] ELSE r
    ELSE IF StartsWith(line, "# branch.ab ")
    THEN IF BRANCH_AB_REGEX(line) # null
         THEN [r EXCEPT !.branch.ahead = Some(parseInt(BRANCH_AB_REGEX(line)[1][1])),
                        !.branch.behind = Some(parseInt(BRANCH_AB_REGEX(line)[1][2]))]
         ELSE r
    ELSE IF StartsWith(line, "1 ")
    THEN IF parseOrdinaryChange(line) # null
         THEN [r EXCEPT !.files = Append(r.files, parseOrdinaryChange(line)[1])] ELSE r
    ELSE IF StartsWith(line, "2 ")
    THEN IF parseRenameCopy(line) # null
         THEN [r EXCEPT !.files = Append(r.files, parseRenameCopy(line)[1])] ELSE r
    ELSE IF StartsWith(line, "u ")
    THEN IF parseUnmerged(line) # null
         THEN [r EXCEPT !.files = Append(r.files, parseUnmerged(line)[1])] ELSE r
    ELSE IF StartsWith(line, "? ")
    THEN IF UNTRACKED_REGEX(line) # null
         THEN [r EXCEPT !.notAdded = Append(r.notAdded, UNTRACKED_REGEX(line)[1])] ELSE r
    ELSE IF StartsWith(line, "! ")
    THEN IF IGNORED_REGEX(line) # null
         THEN [r EXCEPT !.ignored = Append(r.ignored, IGNORED_REGEX(line)[1])] ELSE r
    ELSE r

RECURSIVE ParseStatusLoop(_, _, _)
ParseStatusLoop(r, lines, i) ==
    IF i > Len(lines) THEN r ELSE ParseStatusLoop(ParseStatusLine(r, lines[i]), lines, i + 1)

NonEmptyLine(line) == Len(line) > 0

\* gitParsers.ts parseStatusSummaryV2
parseStatusSummaryV2(output) ==
    ParseStatusLoop(EmptySummary, SelectSeq(SplitAt(Trim(output), "\n"), NonEmptyLine), 1)

\* gitParsers.ts getCurrentBranchV2: null or Some(branch name).
getCurrentBranchV2(summary) ==
    LET head == summary.branch.head
    IN  IF head = null \/ head = Some("") \/ head = Some("(detached)") \/ head = Some("(initial)")
        THEN null ELSE head

\* RepoTruthy as a test against null only: an empty name passes.
RepoTruthy_NotNull(repo) == repo # null

\* A section's repo is truthy: neither null nor the empty string.
RepoTruthy(repo) == repo # null /\ repo # Some("")

\* getRepoKey that gives every section the same key.
getRepoKey_OneKey(repo) == ""

\* gitParsers.ts getRepoKey
getRepoKey(repo) == Coalesce(repo, "")

\* gitParsers.ts buildRepoOutputMap: a function from repo key to output; a later
\* section of the same key replaces an earlier one.
buildRepoOutputMap(sections) ==
    Bind(<<[i \in DOMAIN sections |-> getRepoKey(sections[i].repo)]>>, LAMBDA keys :
        [k \in {keys[1][i] : i \in DOMAIN sections} |->
            sections[Max({i \in DOMAIN sections : keys[1][i] = k})].output])

\* map[key] of a Record: the value, or undefined.
Lookup(map, key) == IF key \in DOMAIN map THEN Some(map[key]) ELSE null

\* gitParsers.ts withRepoPrefix
withRepoPrefix(repo, filePath) ==
    IF repo = null \/ repo = Some("") THEN filePath ELSE repo[1] \o "/" \o filePath

\* gitParsers.ts getFileStatus
\* getFileStatus without the case of the unmerged character.
getFileStatus_NoConflicted(statusChar) ==
    IF statusChar = "M" THEN "modified"
    ELSE IF statusChar = "A" THEN "added"
    ELSE IF statusChar = "D" THEN "deleted"
    ELSE IF statusChar = "R" \/ statusChar = "C" THEN "renamed"
    ELSE IF statusChar = "?" THEN "untracked"
    ELSE "modified"

getFileStatus(statusChar) ==
    IF statusChar = "M" THEN "modified"
    ELSE IF statusChar = "A" THEN "added"
    ELSE IF statusChar = "D" THEN "deleted"
    ELSE IF statusChar = "R" \/ statusChar = "C" THEN "renamed"
    ELSE IF statusChar = "?" THEN "untracked"
    ELSE IF statusChar = "U" THEN "conflicted"
    ELSE "modified"

----------------------------------------------------------------------------
(* Numstat parsing (git diff --numstat) *)

\* (\d+|-)
IsCount(s) == s = "-" \/ (s # "" /\ AllDigits(s))

\* NUMSTAT_REGEX /^(\d+|-)\t(\d+|-)\t(.*)$/ : <<insertions, deletions, file>> as
\* text, or null.
NUMSTAT_REGEX(line) ==
    LET parts == SplitAt(line, "\t")
    IN  IF Len(parts) >= 3 /\ IsCount(parts[1]) /\ IsCount(parts[2]) /\ AllDots(line)
        THEN Some(<<parts[1], parts[2], Join(SubSeq(parts, 3, Len(parts)), "\t")>>)
        ELSE null

\* parseNumStat's result before any line is read.
EmptyDiffSummary == [files |-> <<>>, insertions |-> 0, deletions |-> 0, changes |-> 0, changed |-> 0]

\* One iteration of a loop that keeps the count a binary line reports on one
\* side.
ParseNumStatLine_BinaryKeepsCount(r, line) ==
    Bind(NUMSTAT_REGEX(line), LAMBDA match :
        IF match = null THEN r
        ELSE LET isBinary == match[1][1] = "-" \/ match[1][2] = "-"
                 insertions == IF match[1][1] = "-" THEN 0 ELSE parseInt(match[1][1])
                 deletions == IF match[1][2] = "-" THEN 0 ELSE parseInt(match[1][2])
                 changes == insertions + deletions
             IN  [files |-> Append(r.files,
                                [file |-> match[1][3], changes |-> changes,
                                 insertions |-> insertions, deletions |-> deletions,
                                 binary |-> isBinary]),
                  insertions |-> r.insertions + insertions,
                  deletions |-> r.deletions + deletions,
                  changes |-> r.changes + changes,
                  changed |-> r.changed + 1])

\* One iteration of parseNumStat's for loop.
ParseNumStatLine(r, line) ==
    Bind(NUMSTAT_REGEX(line), LAMBDA match :
        IF match = null THEN r
        ELSE LET isBinary == match[1][1] = "-" \/ match[1][2] = "-"
                 insertions == IF isBinary THEN 0 ELSE parseInt(match[1][1])
                 deletions == IF isBinary THEN 0 ELSE parseInt(match[1][2])
                 changes == insertions + deletions
             IN  [files |-> Append(r.files,
                                [file |-> match[1][3], changes |-> changes,
                                 insertions |-> insertions, deletions |-> deletions,
                                 binary |-> isBinary]),
                  insertions |-> r.insertions + insertions,
                  deletions |-> r.deletions + deletions,
                  changes |-> r.changes + changes,
                  changed |-> r.changed + 1])

RECURSIVE ParseNumStatLoop(_, _, _)
ParseNumStatLoop(r, lines, i) ==
    IF i > Len(lines) THEN r
    ELSE Bind(ParseNumStatLine(r, lines[i]), LAMBDA next : ParseNumStatLoop(next, lines, i + 1))

\* gitParsers.ts parseNumStat
parseNumStat(numStatOutput) ==
    Bind(SelectSeq(SplitAt(Trim(numStatOutput), "\n"), NonEmptyLine), LAMBDA lines :
        ParseNumStatLoop(EmptyDiffSummary, lines, 1))

\* The positions in s where "=>" starts.
ArrowsIn(s) == {k \in 1..(Len(s) - 1) : SubSeq(s, k, k + 1) = "=>"}

\* The braces of s at or after index i.
BracesFrom(s, i) == {j \in i..Len(s) : CharAt(s, j) \in {"{", "}"}}

\* s.replace(/\{([^{}]+?)\s*=>\s*([^{}]+?)\}/g, ...) from index i on: every
\* "{old => new}" group without inner braces, with a non-empty text on either
\* side of an arrow, is replaced by its trimmed old or new part.
RECURSIVE ReplaceBraceGroups(_, _, _)
ReplaceBraceGroups(s, i, takeNew) ==
    IF i > Len(s) THEN ""
    ELSE IF CharAt(s, i) # "{" \/ BracesFrom(s, i + 1) = {}
    THEN CharAt(s, i) \o ReplaceBraceGroups(s, i + 1, takeNew)
    ELSE LET j == Min(BracesFrom(s, i + 1))
             inner == SubSeq(s, i + 1, j - 1)
             arrows == {k \in ArrowsIn(inner) : k >= 2 /\ k + 2 <= Len(inner)}
         IN  IF CharAt(s, j) # "}" \/ arrows = {}
             THEN CharAt(s, i) \o ReplaceBraceGroups(s, i + 1, takeNew)
             ELSE (IF takeNew
                   THEN Trim(SliceFrom(inner, Min(arrows) + 1))
                   ELSE Trim(SubSeq(inner, 1, Min(arrows) - 1)))
                  \o ReplaceBraceGroups(s, j + 1, takeNew)

\* gitParsers.ts normalizeNumstatPath: [newPath, oldPath], oldPath null or Some.
normalizeNumstatPath(rawPath) ==
    Bind(Trim(rawPath), LAMBDA trimmed :
        IF Includes(trimmed, "{") /\ Includes(trimmed, "=>") /\ Includes(trimmed, "}")
        THEN [newPath |-> ReplaceBraceGroups(trimmed, 1, TRUE),
              oldPath |-> Some(ReplaceBraceGroups(trimmed, 1, FALSE))]
        ELSE IF Includes(trimmed, "=>")
                /\ Trim(SliceFrom(trimmed, Max(ArrowsIn(trimmed)) + 1)) # ""
        THEN [newPath |-> Trim(SliceFrom(trimmed, Max(ArrowsIn(trimmed)) + 1)),
              oldPath |-> Some(Trim(SubSeq(trimmed, 1, Min(ArrowsIn(trimmed)) - 1)))]
        ELSE [newPath |-> trimmed, oldPath |-> null])

\* The keys of a map that is not indexed by the old path.
StatKeys_NoOldPath(file) ==
    Bind(normalizeNumstatPath(file), LAMBDA paths :
        {file}
        \cup (IF paths.newPath # "" /\ paths.newPath # file THEN {paths.newPath} ELSE {}))

\* The keys createDiffStatsMap sets for one file of the summary.
StatKeys(file) ==
    Bind(normalizeNumstatPath(file), LAMBDA paths :
        {file}
        \cup (IF paths.newPath # "" /\ paths.newPath # file THEN {paths.newPath} ELSE {})
        \cup (IF paths.oldPath # null /\ paths.oldPath # Some("") /\ paths.oldPath # Some(file)
                 /\ paths.oldPath # Some(paths.newPath)
              THEN {paths.oldPath[1]} ELSE {}))

\* gitParsers.ts createDiffStatsMap: a function from path to [added, removed,
\* binary]; a later file of the summary replaces the keys of an earlier one.
createDiffStatsMap(summary) ==
    Bind(summary.files, LAMBDA files :
    Bind(<<[i \in DOMAIN files |-> StatKeys(files[i].file)]>>, LAMBDA keys :
        [k \in UNION {keys[1][i] : i \in DOMAIN files} |->
            LET f == files[Max({i \in DOMAIN files : k \in keys[1][i]})]
            IN  [added |-> f.insertions, removed |-> f.deletions, binary |-> f.binary]]))

----------------------------------------------------------------------------
(* Status aggregation *)

\* The stats of a path absent from a stats map.
NoStats == [added |-> 0, removed |-> 0, binary |-> FALSE]

\* file.path.split('/'): fileName and filePath of an entry.
FileNameOf(path) ==
    LET parts == SplitAt(path, "/")
    IN  IF parts[Len(parts)] # "" THEN parts[Len(parts)] ELSE path
DirPathOf(path) ==
    LET parts == SplitAt(path, "/")
    IN  Join(SubSeq(parts, 1, Len(parts) - 1), "/")

\* StagedEntry without the untracked sentinel: an index character '?' counts
\* as a change.
StagedEntry_WithoutUntrackedSentinel(repo, file, stagedStats) ==
    IF file.index # " " /\ file.index # "."
    THEN <<[fileName |-> file.path, filePath |-> "", fullPath |-> file.path, repo |-> repo,
            status |-> "modified", isStaged |-> TRUE, linesAdded |-> 0, linesRemoved |-> 0,
            oldPath |-> null]>>
    ELSE <<>>

\* The entries buildGitStatusFiles pushes for one file of a status summary.
StagedEntry(repo, file, stagedStats) ==
    IF file.index # " " /\ file.index # "." /\ file.index # "?"
    THEN <<[fileName |-> FileNameOf(file.path), filePath |-> DirPathOf(file.path),
            fullPath |-> withRepoPrefix(repo, file.path), repo |-> repo,
            status |-> getFileStatus(file.index), isStaged |-> TRUE,
            linesAdded |-> Coalesce(Lookup(stagedStats, file.path), NoStats).added,
            linesRemoved |-> Coalesce(Lookup(stagedStats, file.path), NoStats).removed,
            oldPath |-> IF file.from # null THEN Some(withRepoPrefix(repo, file.from[1]))
                        ELSE null]>>
    ELSE <<>>
UnstagedEntry(repo, file, unstagedStats) ==
    IF file.workingDir # " " /\ file.workingDir # "."
    THEN <<[fileName |-> FileNameOf(file.path), filePath |-> DirPathOf(file.path),
            fullPath |-> withRepoPrefix(repo, file.path), repo |-> repo,
            status |-> getFileStatus(file.workingDir), isStaged |-> FALSE,
            linesAdded |-> Coalesce(Lookup(unstagedStats, file.path), NoStats).added,
            linesRemoved |-> Coalesce(Lookup(unstagedStats, file.path), NoStats).removed,
            oldPath |-> IF file.from # null THEN Some(withRepoPrefix(repo, file.from[1]))
                        ELSE null]>>
    ELSE <<>>

\* The entry buildGitStatusFiles pushes for one untracked path.
\* UntrackedEntry that keeps the directory placeholders.
UntrackedEntry_KeepsDirectories(repo, untrackedPath) ==
    LET cleanPath == IF EndsWith(untrackedPath, "/")
                     THEN SubSeq(untrackedPath, 1, Len(untrackedPath) - 1)
                     ELSE untrackedPath
    IN  <<[fileName |-> cleanPath, filePath |-> "",
           fullPath |-> withRepoPrefix(repo, cleanPath), repo |-> repo,
           status |-> "untracked", isStaged |-> FALSE,
           linesAdded |-> 0, linesRemoved |-> 0, oldPath |-> null]>>

UntrackedEntry(repo, untrackedPath) ==
    LET cleanPath == IF EndsWith(untrackedPath, "/")
                     THEN SubSeq(untrackedPath, 1, Len(untrackedPath) - 1)
                     ELSE untrackedPath
    IN  IF EndsWith(untrackedPath, "/") THEN <<>>
        ELSE <<[fileName |-> FileNameOf(cleanPath), filePath |-> DirPathOf(cleanPath),
                fullPath |-> withRepoPrefix(repo, cleanPath), repo |-> repo,
                status |-> "untracked", isStaged |-> FALSE,
                linesAdded |-> 0, linesRemoved |-> 0, oldPath |-> null]>>

\* The concatenation of a sequence of sequences.
RECURSIVE Flatten(_)
Flatten(seqs) == IF Len(seqs) = 0 THEN <<>> ELSE Head(seqs) \o Flatten(Tail(seqs))

\* One iteration of buildGitStatusFiles' loop over the status sections.
BuildSection(acc, section, hasMultiRepoMetadata, unstagedDiffByRepo, stagedDiffByRepo) ==
    Bind(parseStatusSummaryV2(section.output), LAMBDA statusSummary :
    Bind(createDiffStatsMap(parseNumStat(
             Coalesce(Lookup(stagedDiffByRepo, getRepoKey(section.repo)), ""))),
         LAMBDA stagedStats :
    Bind(createDiffStatsMap(parseNumStat(
             Coalesce(Lookup(unstagedDiffByRepo, getRepoKey(section.repo)), ""))),
         LAMBDA unstagedStats :
        LET currentBranch == getCurrentBranchV2(statusSummary)
            files == statusSummary.files
            notAdded == statusSummary.notAdded
        IN  [repos |-> IF RepoTruthy(section.repo)
                       THEN Append(acc.repos, [name |-> section.repo[1], branch |-> currentBranch])
                       ELSE acc.repos,
             branchName |-> IF ~RepoTruthy(section.repo) /\ ~hasMultiRepoMetadata
                            THEN currentBranch ELSE acc.branchName,
             stagedFiles |-> acc.stagedFiles
                 \o Flatten([i \in DOMAIN files |->
                                StagedEntry(section.repo, files[i], stagedStats)]),
             unstagedFiles |-> acc.unstagedFiles
                 \o Flatten([i \in DOMAIN files |->
                                UnstagedEntry(section.repo, files[i], unstagedStats)])
                 \o Flatten([i \in DOMAIN notAdded |->
                                UntrackedEntry(section.repo, notAdded[i])])])))

\* buildGitStatusFiles' loop over the status sections.
RECURSIVE BuildSections(_, _, _, _, _, _)
BuildSections(acc, sections, i, hasMultiRepoMetadata, unstagedDiffByRepo, stagedDiffByRepo) ==
    IF i > Len(sections) THEN acc
    ELSE Bind(BuildSection(acc, sections[i], hasMultiRepoMetadata,
                           unstagedDiffByRepo, stagedDiffByRepo),
              LAMBDA next :
                  BuildSections(next, sections, i + 1, hasMultiRepoMetadata,
                                unstagedDiffByRepo, stagedDiffByRepo))

\* gitParsers.ts buildGitStatusFiles
buildGitStatusFiles(statusOut, unstagedDiffOut, stagedDiffOut) ==
    Bind(splitRepoSections(statusOut), LAMBDA statusSections :
    Bind(buildRepoOutputMap(splitRepoSections(unstagedDiffOut)), LAMBDA unstagedDiffByRepo :
    Bind(buildRepoOutputMap(splitRepoSections(stagedDiffOut)), LAMBDA stagedDiffByRepo :
    Bind(\E i \in 1..Len(statusSections) : statusSections[i].repo # null,
         LAMBDA hasMultiRepoMetadata :
    Bind(BuildSections([repos |-> <<>>, branchName |-> null,
                        stagedFiles |-> <<>>, unstagedFiles |-> <<>>],
                       statusSections, 1, hasMultiRepoMetadata,
                       unstagedDiffByRepo, stagedDiffByRepo),
         LAMBDA acc :
        [stagedFiles |-> acc.stagedFiles,
         unstagedFiles |-> acc.unstagedFiles,
         branch |-> IF hasMultiRepoMetadata THEN null ELSE acc.branchName,
         repos |-> acc.repos,
         totalStaged |-> Len(acc.stagedFiles),
         totalUnstaged |-> Len(acc.unstagedFiles)])))))

----------------------------------------------------------------------------
(* Paths (node:path, POSIX) *)

sep == "/"

\* path.isAbsolute
isAbsolute(p) == StartsWith(p, "/")

\* The segments of a path with '', '.' and '..' resolved.
RECURSIVE NormalizeSegments(_, _)
NormalizeSegments(segs, acc) ==
    IF Len(segs) = 0 THEN acc
    ELSE IF Head(segs) = "" \/ Head(segs) = "."
    THEN NormalizeSegments(Tail(segs), acc)
    ELSE IF Head(segs) = ".."
    THEN NormalizeSegments(Tail(segs), IF Len(acc) = 0 THEN acc ELSE SubSeq(acc, 1, Len(acc) - 1))
    ELSE NormalizeSegments(Tail(segs), Append(acc, Head(segs)))

\* The normalized segments of an absolute path.
AbsSegments(p) == NormalizeSegments(SplitAt(p, "/"), <<>>)

\* path.resolve(base, p), base absolute.
resolve(base, p) ==
    "/" \o Join(AbsSegments(IF isAbsolute(p) THEN p ELSE base \o "/" \o p), "/")

\* path.join(dir, name), dir absolute.
join(dir, name) == resolve(dir, name)

\* path.relative(from, to), both absolute.
CommonPrefix(f, t) == Max({k \in 0..Min({Len(f), Len(t)}) : SubSeq(f, 1, k) = SubSeq(t, 1, k)})
relative(from, to) ==
    Bind(<<AbsSegments(from), AbsSegments(to)>>, LAMBDA ft :
        Bind(CommonPrefix(ft[1], ft[2]), LAMBDA k :
            Join([i \in 1..(Len(ft[1]) - k) |-> ".."] \o SubSeq(ft[2], k + 1, Len(ft[2])), "/")))

\* The last segment of a path, and the path without it.
Basename(p) == LET segs == AbsSegments(p) IN segs[Len(segs)]
Dirname(p) == LET segs == AbsSegments(p) IN "/" \o Join(SubSeq(segs, 1, Len(segs) - 1), "/")

\* git.ts toPosixPath
toPosixPath(value) == Join(SplitAt(value, sep), "/")

\* git.ts isPathInside
isPathInside(targetPath, parentPath) ==
    \E rel \in {relative(resolve("/", parentPath), resolve("/", targetPath))} :
        IF rel = "" THEN TRUE
        ELSE IF StartsWith(rel, "..") THEN FALSE
        ELSE IF isAbsolute(rel) THEN FALSE
        ELSE TRUE

----------------------------------------------------------------------------
(* String.prototype.localeCompare *)

\* The primary order of the characters (ICU root collation: white space,
\* punctuation, symbols, digits, letters; a letter and its capital are equal
\* at this level).
CollationOrder == " _-,;:!?.'\"()[]{}@*/\\&#%^+<=>|~$0123456789abcdefghijklmnopqrstuvwxyz"
PrimaryWeight(c) == IndexOfChar(CollationOrder, ToLowerCase(c))

\* a.localeCompare(b): negative, zero or positive. Primary weights decide; on a
\* tie the first difference in case does, lower case first.
localeCompare(a, b) ==
    LET n == Min({Len(a), Len(b)})
        pd == {i \in 1..n : PrimaryWeight(CharAt(a, i)) # PrimaryWeight(CharAt(b, i))}
        cd == {i \in 1..n : CharAt(a, i) # CharAt(b, i)}
    IN  IF pd # {}
        THEN IF PrimaryWeight(CharAt(a, Min(pd))) < PrimaryWeight(CharAt(b, Min(pd))) THEN -1 ELSE 1
        ELSE IF Len(a) # Len(b) THEN (IF Len(a) < Len(b) THEN -1 ELSE 1)
        ELSE IF cd = {} THEN 0
        ELSE IF IndexOfChar(UpperCaseLetters, CharAt(a, Min(cd))) = 0 THEN -1 ELSE 1

----------------------------------------------------------------------------
(* Nested repository discovery *)

DISCOVERY_CACHE_TTL_MS == 3000
MAX_DISCOVERY_DEPTH == 4
MAX_DISCOVERY_REPOS == 64
MAX_DISCOVERY_DIRECTORIES == 2000

SKIPPED_DIRECTORY_NAMES ==
    {".git", "node_modules", ".idea", ".vscode", "dist", "build", "target",
     ".next", ".cache", ".turbo", ".pnpm-store", "coverage"}

\* shouldSkipDirectory without the rule for hidden directories.
shouldSkipDirectory_NamesOnly(name) ==
    IF name = ".git" THEN TRUE
    ELSE name \in SKIPPED_DIRECTORY_NAMES

\* git.ts shouldSkipDirectory
shouldSkipDirectory(name) ==
    IF name = ".git" THEN TRUE
    ELSE IF name \in SKIPPED_DIRECTORY_NAMES THEN TRUE
    ELSE StartsWith(name, ".")

\* A file system is [dirs, files, git, unreadable, listing]: the directories and
\* the files (absolute paths), the directories that hold a .git entry, the
\* directories readdir fails on, and the listings given outright.

\* hasGitMetadata that answers true for every directory.
hasGitMetadata_Always(fs, dirPath) == dirPath \in fs.dirs

\* git.ts hasGitMetadata: lstat(join(dirPath, '.git')) is a directory or a file.
hasGitMetadata(fs, dirPath) == dirPath \in fs.git

\* A sequence of the elements of a set of strings, in localeCompare order.
RECURSIVE SortedSeq(_)
SortedSeq(S) ==
    IF S = {} THEN <<>>
    ELSE LET m == CHOOSE x \in S : \A y \in S : localeCompare(x, y) <= 0
         IN  <<m>> \o SortedSeq(S \ {m})

\* The entries of a directory: the directories and files directly in it.
ChildrenOf(fs, dir) ==
    {e \in fs.dirs \cup fs.files :
        StartsWith(e, dir \o "/") /\ ~Includes(SliceFrom(e, Len(dir) + 1), "/")}

\* readdir(dir, {withFileTypes: true}): [ok, entries], entries of [name, isDirectory].
\* A file system may give the listing of a directory outright (fs.listing, names
\* of directories); the entries are otherwise computed from its paths.
readdir(fs, dir) ==
    IF dir \in fs.unreadable \/ dir \notin fs.dirs THEN [ok |-> FALSE, entries |-> <<>>]
    ELSE IF dir \in DOMAIN fs.listing
    THEN [ok |-> TRUE,
          entries |-> [i \in 1..Len(fs.listing[dir]) |->
                          [name |-> fs.listing[dir][i], isDirectory |-> TRUE]]]
    ELSE Bind(SortedSeq({SliceFrom(e, Len(dir) + 1) : e \in ChildrenOf(fs, dir)}
                        \cup (IF dir \in fs.git THEN {".git"} ELSE {})),
              LAMBDA names :
                  [ok |-> TRUE,
                   entries |-> [i \in 1..Len(names) |->
                       [name |-> names[i],
                        isDirectory |-> names[i] = ".git" \/ join(dir, names[i]) \in fs.dirs]]])

\* The inner loop of discoverNestedGitRepos: the queue with the kept entries pushed.
PushEntries(queue, entries, current) ==
    Bind(SelectSeq(entries, LAMBDA e : e.isDirectory /\ ~shouldSkipDirectory(e.name)),
         LAMBDA kept :
             queue \o [k \in 1..Len(kept) |->
                          [path |-> join(current.path, kept[k].name), depth |-> current.depth + 1]])

\* discoverNestedGitRepos' loop state at the head of its first iteration.
ScanStart(baseCwd) ==
    [queue |-> <<[path |-> baseCwd, depth |-> 0]>>, index |-> 1, discovered |-> <<>>,
     scannedDirectories |-> 0]

\* ScanEnded without the break on the number of directories visited.
ScanEnded_NoDirectoryBound(st) ==
    \/ st.index > Len(st.queue)
    \/ Len(st.discovered) >= MAX_DISCOVERY_REPOS

\* ScanEnded without the break on the number of repositories.
ScanEnded_NoRepositoryBound(st) ==
    \/ st.index > Len(st.queue)
    \/ st.scannedDirectories >= MAX_DISCOVERY_DIRECTORIES

\* The loop is over: the queue is exhausted, or one of the two breaks is taken.
ScanEnded(st) ==
    \/ st.index > Len(st.queue)
    \/ Len(st.discovered) >= MAX_DISCOVERY_REPOS
    \/ st.scannedDirectories >= MAX_DISCOVERY_DIRECTORIES

\* ScanRecord that goes on into the repository: a directory inside it is queued.
ScanRecord_QueuesInside(baseCwd, st) ==
    [st EXCEPT !.discovered = Append(@, [absolutePath |-> st.queue[st.index].path,
                                         relativePath |-> relative(baseCwd, st.queue[st.index].path)]),
               !.queue = Append(@, [path |-> st.queue[st.index].path \o "/src",
                                    depth |-> st.queue[st.index].depth + 1]),
               !.index = @ + 1,
               !.scannedDirectories = @ + 1]

\* An iteration on a directory with git metadata below the root: it is recorded
\* (when its relative path is non-empty and does not start with '..') and not read.
ScanRecord(baseCwd, st) ==
    Bind(toPosixPath(relative(baseCwd, st.queue[st.index].path)), LAMBDA relPath :
        [st EXCEPT !.discovered =
                       IF relPath # "" /\ ~StartsWith(relPath, "..")
                       THEN Append(@, [absolutePath |-> st.queue[st.index].path,
                                       relativePath |-> relPath])
                       ELSE @,
                   !.index = @ + 1,
                   !.scannedDirectories = @ + 1])

\* An iteration that ends at a 'continue': the depth limit, or readdir threw.
ScanSkip(st) == [st EXCEPT !.index = @ + 1, !.scannedDirectories = @ + 1]

\* An iteration that reads the directory and queues its sub-directories.
ScanPush(st, entries) ==
    [st EXCEPT !.queue = PushEntries(@, entries, st.queue[st.index]),
               !.index = @ + 1,
               !.scannedDirectories = @ + 1]

\* One iteration of discoverNestedGitRepos' outer loop.
DiscoverStep(fs, baseCwd, st) ==
    IF st.queue[st.index].depth > 0 /\ hasGitMetadata(fs, st.queue[st.index].path)
    THEN ScanRecord(baseCwd, st)
    ELSE IF st.queue[st.index].depth >= MAX_DISCOVERY_DEPTH THEN ScanSkip(st)
    ELSE IF ~readdir(fs, st.queue[st.index].path).ok THEN ScanSkip(st)
    ELSE ScanPush(st, readdir(fs, st.queue[st.index].path).entries)

\* The outer loop of discoverNestedGitRepos: the repositories discovered, unsorted.
RECURSIVE DiscoverLoop(_, _, _)
DiscoverLoop(fs, baseCwd, st) ==
    IF ScanEnded(st) THEN st.discovered
    ELSE DiscoverLoop(fs, baseCwd, DiscoverStep(fs, baseCwd, st))

\* arr.sort(cmp), which is stable: the element at index i goes after the
\* elements that compare lower and the earlier elements that compare equal.
SortedBy(arr, Cmp(_, _)) ==
    Bind([i \in 1..Len(arr) |->
             1 + Cardinality({j \in 1..Len(arr) :
                     \E c \in {Cmp(arr[j], arr[i])} : c < 0 \/ (c = 0 /\ j < i)})],
         LAMBDA rank : [k \in 1..Len(arr) |-> arr[CHOOSE i \in 1..Len(arr) : rank[i] = k]])

\* SortByRelativePath with the comparison turned round: b.relativePath.localeCompare(a.relativePath).
SortByRelativePath_Descending(repos) ==
    SortedBy(repos, LAMBDA a, b : localeCompare(b.relativePath, a.relativePath))

\* discovered.sort((a, b) => a.relativePath.localeCompare(b.relativePath))
SortByRelativePath(repos) ==
    SortedBy(repos, LAMBDA a, b : localeCompare(a.relativePath, b.relativePath))

\* git.ts discoverNestedGitRepos
discoverNestedGitRepos(fs, baseCwd) ==
    SortByRelativePath(DiscoverLoop(fs, baseCwd, ScanStart(baseCwd)))

\* The working directory the handlers are registered with, and the file
\* systems under it.
workingDirectory == "/w"
\* A second directory that status is requested for: its cache entry is its own.
OtherRoot == "/w/apps"

\* No repository below the root.
TreeEmpty ==
    [dirs |-> {"/w", "/w/docs"}, files |-> {"/w/readme.md"}, git |-> {}, unreadable |-> {},
     listing |-> <<>>]
\* Repositories apps and Lib (one with a capital), a repository nested in apps, a
\* repository below a pruned directory, an unreadable directory.
TreeTwo ==
    [dirs |-> {"/w", "/w/apps", "/w/apps/vendor", "/w/Lib", "/w/node_modules",
               "/w/node_modules/dep", "/w/locked", "/w/locked/inner"},
     files |-> {"/w/apps/f.txt", "/w/apps/..f", "/w/Lib/f.txt"},
     git |-> {"/w/apps", "/w/apps/vendor", "/w/Lib", "/w/node_modules/dep", "/w/locked/inner"},
     unreadable |-> {"/w/locked"},
     listing |-> <<>>]
FileSystems == {TreeEmpty, TreeTwo}

\* discoverNestedGitRepos(baseCwd) on each file system, for the directory the
\* handlers scan.
Discovered == [tree \in FileSystems |-> discoverNestedGitRepos(tree, workingDirectory)]

----------------------------------------------------------------------------
(* The git process *)

GIT_STATUS_ARGS == <<"status", "--porcelain=v2", "--branch", "--untracked-files=all">>

\* The grave accent, which a TLA+ string cannot hold, is written ^.
GRAVE == "^"

\* What git writes to stderr when it fails.
StderrNotARepo == "fatal: not a git repository (or any of the parent directories): .git\n"
StderrNotARepoCapital == "fatal: Not a git repository (or any of the parent directories): .git\n"
StderrNoIndexUsage == "usage: git diff --no-index [<options>] <path> <path>\n"
StderrOutsideWorkTree ==
    "error: Use --no-index to compare two paths outside a working tree\n"
StderrUnknownCached == "error: unknown option " \o GRAVE \o "cached" \o GRAVE \o "\n"
StderrOther == "fatal: bad revision 'HEAD'\n"

\* The field of a response or error object, null when it has none.
Field(r, k) == IF k \in DOMAIN r THEN Some(r[k]) ELSE null

\* Numeric, string-valued and absent error codes.
NumCode(n) == [type |-> "number", num |-> n, str |-> ""]
StrCode(v) == [type |-> "string", num |-> 0, str |-> v]
NoCode == [type |-> "undefined", num |-> 0, str |-> ""]

\* The ways a git process ends. ok: exit 0 with its output. Otherwise the error
\* execFile rejects with: code (exit status, errno name or none), killed,
\* the output captured so far, and a message of its own if it is not the
\* "Command failed" one.
ExecOk(out) == [ok |-> TRUE, stdout |-> out, stderr |-> ""]
ExecExit(n, err) ==
    [ok |-> FALSE, code |-> NumCode(n), killed |-> FALSE, stdout |-> "", stderr |-> err,
     message |-> null]
ExecKilled(out, err) ==
    [ok |-> FALSE, code |-> NoCode, killed |-> TRUE, stdout |-> out, stderr |-> err,
     message |-> null]
ExecSpawn(errno) ==
    [ok |-> FALSE, code |-> StrCode(errno), killed |-> FALSE, stdout |-> "", stderr |-> "",
     message |-> Some("spawn git " \o errno)]

\* What a successful command prints.
SampleStdout(op) ==
    IF op = "status"
    THEN "# branch.oid 1111111\n# branch.head main\n1 MM N... 100644 100644 100644 1111111 2222222 tracked.txt\n? untracked.txt\n"
    ELSE IF op = "numstat" THEN "1\t0\ttracked.txt\n"
    ELSE "diff --git a/tracked.txt b/tracked.txt\n+line3\n"

\* The outcomes of the direct command, and of a command run in a nested repository.
DirectOutcomes(op) ==
    {ExecOk(SampleStdout(op)), ExecOk(""),
     ExecExit(128, StderrNotARepo), ExecExit(128, StderrNotARepoCapital),
     ExecExit(129, StderrNoIndexUsage), ExecExit(129, StderrOutsideWorkTree),
     ExecExit(129, StderrUnknownCached), ExecExit(128, StderrOther),
     ExecKilled("", ""), ExecKilled("", StderrNotARepo),
     ExecSpawn("ENOENT"), ExecSpawn("ETIMEDOUT")}
NestedOutcomes(op) ==
    {ExecOk(SampleStdout(op)), ExecOk(""), ExecExit(128, StderrOther),
     ExecKilled(SampleStdout(op), ""), ExecSpawn("ENOENT")}

\* error.message of the error execFile rejects with.
ExecMessage(args, o) ==
    IF o.message # null THEN o.message[1]
    ELSE "Command failed: git " \o Join(args, " ") \o "\n" \o o.stderr

\* rpcResponses.ts rpcError(message, extra)
rpcError(message, extra) ==
    [k \in {"success", "error"} \cup DOMAIN extra |->
        IF k = "success" THEN FALSE ELSE IF k = "error" THEN message ELSE extra[k]]
NoExtra == <<>>

\* runGitCommand without the timeout case: a killed process is reported like
\* any other failure.
runGitCommand_NoTimeoutCase(args, o) ==
    IF o.ok
    THEN [success |-> TRUE, stdout |-> o.stdout, stderr |-> o.stderr, exitCode |-> 0]
    ELSE LET message == IF ExecMessage(args, o) # "" THEN ExecMessage(args, o) ELSE "Command failed"
         IN  rpcError(message,
                  [stdout |-> o.stdout,
                   stderr |-> IF o.stderr # "" THEN o.stderr ELSE message,
                   exitCode |-> IF o.code.type = "number" THEN o.code.num ELSE 1])

\* git.ts runGitCommand, on the outcome o of execFile('git', args, ...)
runGitCommand(args, o) ==
    IF o.ok
    THEN [success |-> TRUE, stdout |-> o.stdout, stderr |-> o.stderr, exitCode |-> 0]
    ELSE IF (o.code.type = "string" /\ o.code.str = "ETIMEDOUT") \/ o.killed
    THEN rpcError("Command timed out",
                  [stdout |-> o.stdout, stderr |-> o.stderr,
                   exitCode |-> IF o.code.type = "number" THEN o.code.num ELSE -1])
    ELSE LET message == IF ExecMessage(args, o) # "" THEN ExecMessage(args, o) ELSE "Command failed"
         IN  rpcError(message,
                  [stdout |-> o.stdout,
                   stderr |-> IF o.stderr # "" THEN o.stderr ELSE message,
                   exitCode |-> IF o.code.type = "number" THEN o.code.num ELSE 1])

\* shouldFallbackToNestedRepos without the look at the text: every failure
\* falls back.
shouldFallbackToNestedRepos_AnyFailure(resp) == ~resp.success

\* git.ts shouldFallbackToNestedRepos
shouldFallbackToNestedRepos(resp) ==
    IF resp.success THEN FALSE
    ELSE \E details \in {ToLowerCase(Coalesce(Field(resp, "error"), "") \o "\n"
                                      \o Coalesce(Field(resp, "stderr"), ""))} :
             \/ Includes(details, "not a git repository")
             \/ Includes(details, "use --no-index to compare two paths outside a working tree")
             \/ Includes(details, "usage: git diff --no-index")
             \/ Includes(details, "unknown option " \o GRAVE \o "cached" \o GRAVE)

----------------------------------------------------------------------------
(* The RPC handlers *)

\* What validatePath(path, workingDirectory) answers: valid, invalid with a
\* message, invalid without one.
PathValidations ==
    {[valid |-> TRUE], [valid |-> FALSE, error |-> "Access denied: path outside working directory"],
     [valid |-> FALSE]}

\* git.ts resolveCwd, with validation the answer of validatePath(cwd, workingDirectory)
resolveCwd(requestedCwd, validation) ==
    LET cwd == Coalesce(requestedCwd, workingDirectory)
    IN  IF ~validation.valid
        THEN [cwd |-> cwd, error |-> Some(Coalesce(Field(validation, "error"), "Invalid working directory"))]
        ELSE [cwd |-> cwd, error |-> null]

\* validateFilePath that lets every path through.
validateFilePath_Accepting(validation) == null

\* git.ts validateFilePath, with validation the answer of validatePath(filePath, workingDirectory)
validateFilePath(validation) ==
    IF ~validation.valid
    THEN Some(Coalesce(Field(validation, "error"), "Invalid file path"))
    ELSE null

\* The arguments of the commands the handlers run.
NumstatArgs(staged) ==
    IF staged THEN <<"diff", "--cached", "--numstat">> ELSE <<"diff", "--numstat">>
DiffFileArgs(staged, path) ==
    IF staged THEN <<"diff", "--cached", "--no-ext-diff", "--", path>>
    ELSE <<"diff", "--no-ext-diff", "--", path>>
DirectArgs(req) ==
    IF req.op = "status" THEN GIT_STATUS_ARGS
    ELSE IF req.op = "numstat" THEN NumstatArgs(req.staged)
    ELSE DiffFileArgs(req.staged, req.filePath)
FanoutArgs(req) ==
    IF req.op = "status" THEN GIT_STATUS_ARGS ELSE NumstatArgs(req.staged)

\* The scans of the trees from the second root, computed once.
DiscoveredBelow == [tree \in FileSystems |-> discoverNestedGitRepos(tree, OtherRoot)]

\* The miss of getNestedRepos: the scan, and the entry set for baseCwd.
ScanAndStore(cache, time, fs, baseCwd) ==
    LET found == IF fs \in FileSystems /\ baseCwd = workingDirectory
                 THEN Discovered[fs]
                 ELSE IF fs \in FileSystems /\ baseCwd = OtherRoot
                 THEN DiscoveredBelow[fs]
                 ELSE discoverNestedGitRepos(fs, baseCwd)
    IN  [repos |-> found,
         cache |-> [k \in DOMAIN cache \cup {baseCwd} |->
                       IF k = baseCwd
                       THEN [repos |-> found, expiresAt |-> time + DISCOVERY_CACHE_TTL_MS]
                       ELSE cache[k]],
         scanned |-> TRUE]

\* getNestedRepos with an entry still used at the instant it expires.
getNestedRepos_InclusiveExpiry(cache, time, fs, baseCwd) ==
    IF baseCwd \in DOMAIN cache /\ cache[baseCwd].expiresAt >= time
    THEN [repos |-> cache[baseCwd].repos, cache |-> cache, scanned |-> FALSE]
    ELSE ScanAndStore(cache, time, fs, baseCwd)

\* git.ts getNestedRepos: the list it returns, the cache it leaves, and whether it scanned.
getNestedRepos(cache, time, fs, baseCwd) ==
    IF baseCwd \in DOMAIN cache /\ cache[baseCwd].expiresAt > time
    THEN [repos |-> cache[baseCwd].repos, cache |-> cache, scanned |-> FALSE]
    ELSE ScanAndStore(cache, time, fs, baseCwd)

\* NoNestedRepos with the message of the direct failure only.
NoNestedRepos_Generic == rpcError("Not a git repository", NoExtra)

\* What every fallback returns when getNestedRepos found nothing.
NoNestedRepos == rpcError("Not a git repository and no nested git repositories were found", NoExtra)

\* The fan-out loop of runNestedStatusFallback and runNestedNumstatFallback.
FanInit == [outputs |-> <<>>, errors |-> <<>>, hasSuccess |-> FALSE, idx |-> 0]
FailedDefault(op) == IF op = "status" THEN "status failed" ELSE "diff failed"
UnavailableDefault(op) ==
    IF op = "status" THEN "Nested git status unavailable" ELSE "Nested git diff unavailable"

\* One iteration of the loop, on the result of the repository's command.
\* FanoutStep recording a section only for a non-empty output.
FanoutStep_SkipEmpty(f, repo, result, op) ==
    IF ~result.success
    THEN [f EXCEPT !.errors = Append(@, "[" \o repo.relativePath \o "] "
              \o Coalesce(Field(result, "error"),
                          Coalesce(Field(result, "stderr"), FailedDefault(op))))]
    ELSE IF Trim(Coalesce(Field(result, "stdout"), "")) = ""
    THEN [f EXCEPT !.hasSuccess = TRUE]
    ELSE [f EXCEPT !.hasSuccess = TRUE,
                   !.outputs = Append(@, wrapRepoSectionOutput(repo.relativePath,
                                             Coalesce(Field(result, "stdout"), "")))]

FanoutStep(f, repo, result, op) ==
    IF ~result.success
    THEN [f EXCEPT !.errors = Append(@, "[" \o repo.relativePath \o "] "
              \o Coalesce(Field(result, "error"),
                          Coalesce(Field(result, "stderr"), FailedDefault(op))))]
    ELSE [f EXCEPT !.hasSuccess = TRUE,
                   !.outputs = Append(@, wrapRepoSectionOutput(repo.relativePath,
                                             Coalesce(Field(result, "stdout"), "")))]

\* FanoutFinish with the failure decided by the warnings: one failed
\* repository fails the whole response.
FanoutFinish_FailOnWarning(f, op) ==
    IF Len(f.errors) > 0
    THEN rpcError(f.errors[1], [stderr |-> Join(f.errors, "\n")])
    ELSE [success |-> TRUE, stdout |-> Join(f.outputs, "\n"),
          stderr |-> Join(f.errors, "\n"), exitCode |-> 0]

\* What the fallback returns after the loop.
\* FanoutFinish reporting the last failure instead of the first.
FanoutFinish_LastError(f, op) ==
    IF ~f.hasSuccess
    THEN LET fallbackError == IF Len(f.errors) > 0 THEN f.errors[Len(f.errors)]
                              ELSE UnavailableDefault(op)
         IN  rpcError(fallbackError, [stderr |-> Join(f.errors, "\n")])
    ELSE [success |-> TRUE, stdout |-> Join(f.outputs, "\n"),
          stderr |-> Join(f.errors, "\n"), exitCode |-> 0]

FanoutFinish(f, op) ==
    IF ~f.hasSuccess
    THEN LET fallbackError == IF Len(f.errors) > 0 THEN f.errors[1] ELSE UnavailableDefault(op)
         IN  rpcError(fallbackError, [stderr |-> Join(f.errors, "\n")])
    ELSE [success |-> TRUE, stdout |-> Join(f.outputs, "\n"),
          stderr |-> Join(f.errors, "\n"), exitCode |-> 0]

\* repos.filter(isPathInside).sort(by absolutePath length, longest first)[0]:
\* null, or the first of the longest matching repositories.
Longest(matching) ==
    {i \in 1..Len(matching) :
        \A j \in 1..Len(matching) : Len(matching[j].absolutePath) <= Len(matching[i].absolutePath)}
TargetRepo(list, absoluteFilePath) ==
    Bind(SelectSeq(list, LAMBDA repo : isPathInside(absoluteFilePath, repo.absolutePath)),
         LAMBDA matching :
            IF matching = <<>> THEN null ELSE Some(matching[Min(Longest(matching))]))

\* runNestedDiffFileFallback that does not test the relative path.
runNestedDiffFileFallback_Unchecked(list, baseCwd, filePath, staged) ==
    Bind(resolve(baseCwd, filePath), LAMBDA absoluteFilePath :
    Bind(TargetRepo(list, absoluteFilePath), LAMBDA targetRepo :
        IF targetRepo = null
        THEN [run |-> FALSE,
              response |-> rpcError("File '" \o filePath \o "' is not inside a nested git repository", NoExtra)]
        ELSE [run |-> TRUE,
              args |-> DiffFileArgs(staged, relative(targetRepo[1].absolutePath, absoluteFilePath)),
              cwd |-> targetRepo[1].absolutePath]))

\* git.ts runNestedDiffFileFallback after getNestedRepos returned a non-empty
\* list: an error response, or the command to run and where.
runNestedDiffFileFallback(list, baseCwd, filePath, staged) ==
    Bind(resolve(baseCwd, filePath), LAMBDA absoluteFilePath :
    Bind(TargetRepo(list, absoluteFilePath), LAMBDA targetRepo :
        IF targetRepo = null
        THEN [run |-> FALSE,
              response |-> rpcError("File '" \o filePath \o "' is not inside a nested git repository", NoExtra)]
        ELSE Bind(relative(targetRepo[1].absolutePath, absoluteFilePath), LAMBDA repoRelativePath :
                 IF repoRelativePath = "" \/ StartsWith(repoRelativePath, "..")
                    \/ isAbsolute(repoRelativePath)
                 THEN [run |-> FALSE,
                       response |-> rpcError("Invalid git diff file path '" \o filePath \o "'", NoExtra)]
                 ELSE [run |-> TRUE, args |-> DiffFileArgs(staged, repoRelativePath),
                       cwd |-> targetRepo[1].absolutePath])))

----------------------------------------------------------------------------
(* The handlers as a state machine: one step per await *)

TickMs == 3000
MaxTicks == 1

Ops == {"status", "numstat", "diffFile"}
RequestedCwds == {null, Some(workingDirectory)}
FilePaths ==
    {"apps/f.txt", "apps/vendor/f.txt", "/w/Lib/f.txt", "apps/../Lib/f.txt",
     "docs/f.txt", "apps", "apps/..f"}

\* The requests: data.staged and data.filePath for the operations that read them.
Requests ==
    {[op |-> "status", staged |-> FALSE, filePath |-> "", cwd |-> c] :
        c \in RequestedCwds \cup {Some(OtherRoot)}}
    \cup {[op |-> "numstat", staged |-> st, filePath |-> "", cwd |-> c] :
            st \in BOOLEAN, c \in RequestedCwds}
    \cup {[op |-> "diffFile", staged |-> st, filePath |-> f, cwd |-> c] :
            st \in BOOLEAN, f \in FilePaths, c \in RequestedCwds}

NoRequest ==
    [op |-> "none", staged |-> FALSE, filePath |-> "", cwd |-> "",
     cwdValidation |-> [valid |-> TRUE], fileValidation |-> [valid |-> TRUE]]
EmptyCache == [k \in {} |-> FanInit]
Invocation(args, cwd) == [args |-> args, cwd |-> cwd]

HInit ==
    /\ hPc = "idle"
    /\ hReq = NoRequest
    /\ inFlight = {}
    /\ procLog = <<>>
    /\ procOutcomes = <<>>
    /\ procResults = <<>>
    /\ nestedRepos = <<>>
    /\ fan = FanInit
    /\ response = null
    /\ scans = 0
    /\ repoDiscoveryCache = EmptyCache
    /\ now = 0
    /\ disk \in FileSystems

\* The handler is called: resolveCwd, validateFilePath (git-diff-file), then the
\* direct command is started.
HBegin ==
    /\ hPc = "idle"
    /\ \E data \in Requests, cwdValidation \in PathValidations, fileValidation \in PathValidations :
         LET resolved == resolveCwd(data.cwd, cwdValidation)
             fileError == IF data.op = "diffFile" THEN validateFilePath(fileValidation) ELSE null
             req == [op |-> data.op, staged |-> data.staged, filePath |-> data.filePath,
                     cwd |-> resolved.cwd, cwdValidation |-> cwdValidation,
                     fileValidation |-> fileValidation]
         IN  /\ data.op # "diffFile" => fileValidation = [valid |-> TRUE]
             /\ hReq' = req
             /\ IF resolved.error # null
                THEN /\ response' = Some(rpcError(resolved.error[1], NoExtra))
                     /\ hPc' = "done"
                     /\ UNCHANGED <<inFlight, procLog>>
                ELSE IF fileError # null
                THEN /\ response' = Some(rpcError(fileError[1], NoExtra))
                     /\ hPc' = "done"
                     /\ UNCHANGED <<inFlight, procLog>>
                ELSE /\ inFlight' = {Invocation(DirectArgs(req), resolved.cwd)}
                     /\ procLog' = <<Invocation(DirectArgs(req), resolved.cwd)>>
                     /\ hPc' = "direct"
                     /\ UNCHANGED response
    /\ UNCHANGED <<procOutcomes, procResults, nestedRepos, fan, scans, repoDiscoveryCache, now, disk>>
    /\ UNCHANGED <<pvars, svars, lvars, cvars>>

\* The direct command returns: its result is the response unless it failed
\* with a "not a repository" kind of error.
HDirectReturn ==
    /\ hPc = "direct"
    /\ \E o \in DirectOutcomes(hReq.op) :
         \E result \in {runGitCommand(DirectArgs(hReq), o)} :
             /\ procOutcomes' = <<o>>
             /\ procResults' = <<result>>
             /\ IF result.success \/ ~shouldFallbackToNestedRepos(result)
                THEN /\ response' = Some(result)
                     /\ hPc' = "done"
                ELSE /\ hPc' = "discover"
                     /\ UNCHANGED response
    /\ inFlight' = {}
    /\ UNCHANGED <<hReq, procLog, nestedRepos, fan, scans, repoDiscoveryCache, now, disk>>
    /\ UNCHANGED <<pvars, svars, lvars, cvars>>

\* The fallback starts: getNestedRepos, then either an error response or the
\* first nested command.
HDiscover ==
    /\ hPc = "discover"
    /\ \E got \in {getNestedRepos(repoDiscoveryCache, now, disk, hReq.cwd)} :
       \E target \in {runNestedDiffFileFallback(got.repos, hReq.cwd, hReq.filePath, hReq.staged)} :
           /\ nestedRepos' = got.repos
           /\ repoDiscoveryCache' = got.cache
           /\ scans' = IF got.scanned THEN scans + 1 ELSE scans
           /\ IF Len(got.repos) = 0
              THEN /\ response' = Some(NoNestedRepos)
                   /\ hPc' = "done"
                   /\ UNCHANGED <<inFlight, procLog, fan>>
              ELSE IF hReq.op # "diffFile"
              THEN /\ inFlight' = {Invocation(FanoutArgs(hReq), got.repos[1].absolutePath)}
                   /\ procLog' = Append(procLog, Invocation(FanoutArgs(hReq), got.repos[1].absolutePath))
                   /\ fan' = [FanInit EXCEPT !.idx = 1]
                   /\ hPc' = "fanout"
                   /\ UNCHANGED response
              ELSE IF ~target.run
              THEN /\ response' = Some(target.response)
                   /\ hPc' = "done"
                   /\ UNCHANGED <<inFlight, procLog, fan>>
              ELSE /\ inFlight' = {Invocation(target.args, target.cwd)}
                   /\ procLog' = Append(procLog, Invocation(target.args, target.cwd))
                   /\ hPc' = "nestedDiff"
                   /\ UNCHANGED <<response, fan>>
    /\ UNCHANGED <<hReq, procOutcomes, procResults, now, disk>>
    /\ UNCHANGED <<pvars, svars, lvars, cvars>>

\* HFanoutReturn with a loop that ends at the first failing repository.
HFanoutReturn_StopAtFailure ==
    /\ hPc = "fanout"
    /\ \E o \in NestedOutcomes(hReq.op) :
         \E result \in {runGitCommand(FanoutArgs(hReq), o)} :
         \E f \in {FanoutStep(fan, nestedRepos[fan.idx], result, hReq.op)} :
             /\ procOutcomes' = Append(procOutcomes, o)
             /\ procResults' = Append(procResults, result)
             /\ IF fan.idx < Len(nestedRepos) /\ result.success
                THEN /\ fan' = [f EXCEPT !.idx = fan.idx + 1]
                     /\ inFlight' = {Invocation(FanoutArgs(hReq), nestedRepos[fan.idx + 1].absolutePath)}
                     /\ procLog' = Append(procLog,
                            Invocation(FanoutArgs(hReq), nestedRepos[fan.idx + 1].absolutePath))
                     /\ UNCHANGED <<response, hPc>>
                ELSE /\ fan' = f
                     /\ inFlight' = {}
                     /\ response' = Some(FanoutFinish(f, hReq.op))
                     /\ hPc' = "done"
                     /\ UNCHANGED procLog
    /\ UNCHANGED <<hReq, nestedRepos, scans, repoDiscoveryCache, now, disk>>
    /\ UNCHANGED <<pvars, svars, lvars, cvars>>

\* A repository's command returns inside the for loop: its section or its
\* warning is recorded, then the next repository's command is started, or the
\* loop ends and the aggregate is returned.
HFanoutReturn ==
    /\ hPc = "fanout"
    /\ \E o \in NestedOutcomes(hReq.op) :
         \E result \in {runGitCommand(FanoutArgs(hReq), o)} :
         \E f \in {FanoutStep(fan, nestedRepos[fan.idx], result, hReq.op)} :
             /\ procOutcomes' = Append(procOutcomes, o)
             /\ procResults' = Append(procResults, result)
             /\ IF fan.idx < Len(nestedRepos)
                THEN /\ fan' = [f EXCEPT !.idx = fan.idx + 1]
                     /\ inFlight' = {Invocation(FanoutArgs(hReq), nestedRepos[fan.idx + 1].absolutePath)}
                     /\ procLog' = Append(procLog,
                            Invocation(FanoutArgs(hReq), nestedRepos[fan.idx + 1].absolutePath))
                     /\ UNCHANGED <<response, hPc>>
                ELSE /\ fan' = f
                     /\ inFlight' = {}
                     /\ response' = Some(FanoutFinish(f, hReq.op))
                     /\ hPc' = "done"
                     /\ UNCHANGED procLog
    /\ UNCHANGED <<hReq, nestedRepos, scans, repoDiscoveryCache, now, disk>>
    /\ UNCHANGED <<pvars, svars, lvars, cvars>>

\* HNestedDiffReturn that awaits the command and returns nothing.
HNestedDiffReturn_NoReturn ==
    /\ hPc = "nestedDiff"
    /\ \E o \in NestedOutcomes(hReq.op) :
         \E result \in {runGitCommand(procLog[Len(procLog)].args, o)} :
             /\ procOutcomes' = Append(procOutcomes, o)
             /\ procResults' = Append(procResults, result)
    /\ response' = null
    /\ inFlight' = {}
    /\ hPc' = "done"
    /\ UNCHANGED <<hReq, procLog, nestedRepos, fan, scans, repoDiscoveryCache, now, disk>>
    /\ UNCHANGED <<pvars, svars, lvars, cvars>>

\* The command run in the file's repository returns: its result is the response.
HNestedDiffReturn ==
    /\ hPc = "nestedDiff"
    /\ \E o \in NestedOutcomes(hReq.op) :
         \E result \in {runGitCommand(procLog[Len(procLog)].args, o)} :
             /\ procOutcomes' = Append(procOutcomes, o)
             /\ procResults' = Append(procResults, result)
             /\ response' = Some(result)
    /\ inFlight' = {}
    /\ hPc' = "done"
    /\ UNCHANGED <<hReq, procLog, nestedRepos, fan, scans, repoDiscoveryCache, now, disk>>
    /\ UNCHANGED <<pvars, svars, lvars, cvars>>

\* The response is delivered; the request's locals are gone, the cache stays.
HRespond ==
    /\ hPc = "done"
    /\ hPc' = "idle"
    /\ hReq' = NoRequest
    /\ inFlight' = {}
    /\ procLog' = <<>>
    /\ procOutcomes' = <<>>
    /\ procResults' = <<>>
    /\ nestedRepos' = <<>>
    /\ fan' = FanInit
    /\ response' = null
    /\ scans' = 0
    /\ UNCHANGED <<repoDiscoveryCache, now, disk>>
    /\ UNCHANGED <<pvars, svars, lvars, cvars>>

\* Time passes between requests.
Tick ==
    /\ hPc = "idle"
    /\ now < TickMs * MaxTicks
    /\ now' = now + TickMs
    /\ UNCHANGED <<hPc, hReq, inFlight, procLog, procOutcomes, procResults, nestedRepos, fan,
                   response, scans,
                   repoDiscoveryCache, disk>>
    /\ UNCHANGED <<pvars, svars, lvars, cvars>>

\* The directory tree changes between requests.
FsChange ==
    /\ hPc = "idle"
    /\ \E tree \in FileSystems \ {disk} : disk' = tree
    /\ UNCHANGED <<hPc, hReq, inFlight, procLog, procOutcomes, procResults, nestedRepos, fan,
                   response, scans,
                   repoDiscoveryCache, now>>
    /\ UNCHANGED <<pvars, svars, lvars, cvars>>

----------------------------------------------------------------------------
(* One discovery scan as a state machine: an iteration of the loop of         *)
(* discoverNestedGitRepos per step (the loop suspends at lstat and readdir).  *)

\* Sizes of the large trees: more repositories than MAX_DISCOVERY_REPOS, more
\* directories than MAX_DISCOVERY_DIRECTORIES.
ManyRepos == 70
WideCount == 2010

\* Repositories a and a/b (one inside the other), a repository at depth 4 and
\* one at depth 5, repositories in a hidden and in a pruned directory, a
\* directory chain deeper than the limit.
TreeNested ==
    [dirs |-> {"/w", "/w/a", "/w/a/b", "/w/a/src",
               "/w/d1", "/w/d1/d2", "/w/d1/d2/d3", "/w/d1/d2/d3/d4",
               "/w/e1", "/w/e1/e2", "/w/e1/e2/e3", "/w/e1/e2/e3/e4", "/w/e1/e2/e3/e4/e5",
               "/w/e1/e2/e3/e4/e5/e6",
               "/w/.hidden", "/w/build", "/w/build/out"},
     files |-> {"/w/a/src/main.ts", "/w/notes.txt"},
     git |-> {"/w/a", "/w/a/b", "/w/d1/d2/d3/d4", "/w/e1/e2/e3/e4/e5", "/w/.hidden",
              "/w/build/out"},
     unreadable |-> {},
     listing |-> <<>>]

\* ManyRepos repositories r1, r2, ... directly under the root.
TreeManyRepos ==
    [dirs |-> {"/w"} \cup {"/w/r" \o ToString(i) : i \in 1..ManyRepos},
     files |-> {},
     git |-> {"/w/r" \o ToString(i) : i \in 1..ManyRepos},
     unreadable |-> {},
     listing |-> [d \in {"/w"} |-> [i \in 1..ManyRepos |-> "r" \o ToString(i)]]]

\* WideCount empty directories n1, n2, ... directly under the root, the last
\* one a repository.
TreeWide ==
    [dirs |-> {"/w"} \cup {"/w/n" \o ToString(i) : i \in 1..WideCount},
     files |-> {},
     git |-> {"/w/n" \o ToString(WideCount)},
     unreadable |-> {},
     listing |-> [d \in {"/w"} \cup {"/w/n" \o ToString(i) : i \in 1..WideCount} |->
                     IF d = "/w" THEN [i \in 1..WideCount |-> "n" \o ToString(i)] ELSE <<>>]]

ScanTrees == [two |-> TreeTwo, nested |-> TreeNested, many |-> TreeManyRepos, wide |-> TreeWide]

\* The scans: a tree and the directory scanned (a root that is a repository
\* itself among them).
ScanInputs ==
    {[tree |-> "two", root |-> "/w"], [tree |-> "two", root |-> "/w/apps"],
     [tree |-> "nested", root |-> "/w"], [tree |-> "nested", root |-> "/w/a"],
     [tree |-> "nested", root |-> "/w/e1"],
     [tree |-> "many", root |-> "/w"], [tree |-> "wide", root |-> "/w"]}

\* The order in which readdir lists a directory is the file system's: the
\* entries are taken in the listed order or in the reverse one.
Reverse(seq) == [i \in 1..Len(seq) |-> seq[Len(seq) + 1 - i]]

\* No scan.
SRest ==
    /\ scanPc = "rest"
    /\ scanTree = "two"
    /\ scanRoot = workingDirectory
    /\ scan = ScanStart(workingDirectory)
    /\ scanResult = <<>>

\* discoverNestedGitRepos(baseCwd) is called.
SInit ==
    /\ scanPc = "scanning"
    /\ \E in \in ScanInputs :
          /\ scanTree = in.tree
          /\ scanRoot = in.root
          /\ scan = ScanStart(in.root)
    /\ scanResult = <<>>

\* The directory the next iteration visits.
ScanCurrent == scan.queue[scan.index]

\* An iteration finds git metadata in a directory below the root.
ScanIterationRecord ==
    /\ scanPc = "scanning"
    /\ ~ScanEnded(scan)
    /\ ScanCurrent.depth > 0
    /\ hasGitMetadata(ScanTrees[scanTree], ScanCurrent.path)
    /\ scan' = ScanRecord(scanRoot, scan)
    /\ UNCHANGED <<scanPc, scanTree, scanRoot, scanResult>>
    /\ UNCHANGED <<hvars, pvars, lvars, cvars>>

\* An iteration stops at the depth limit.
ScanIterationDepthLimit ==
    /\ scanPc = "scanning"
    /\ ~ScanEnded(scan)
    /\ ~(ScanCurrent.depth > 0 /\ hasGitMetadata(ScanTrees[scanTree], ScanCurrent.path))
    /\ ScanCurrent.depth >= MAX_DISCOVERY_DEPTH
    /\ scan' = ScanSkip(scan)
    /\ UNCHANGED <<scanPc, scanTree, scanRoot, scanResult>>
    /\ UNCHANGED <<hvars, pvars, lvars, cvars>>

\* An iteration whose readdir throws.
ScanIterationReadFailed ==
    /\ scanPc = "scanning"
    /\ ~ScanEnded(scan)
    /\ ~(ScanCurrent.depth > 0 /\ hasGitMetadata(ScanTrees[scanTree], ScanCurrent.path))
    /\ ScanCurrent.depth < MAX_DISCOVERY_DEPTH
    /\ ~readdir(ScanTrees[scanTree], ScanCurrent.path).ok
    /\ scan' = ScanSkip(scan)
    /\ UNCHANGED <<scanPc, scanTree, scanRoot, scanResult>>
    /\ UNCHANGED <<hvars, pvars, lvars, cvars>>

\* An iteration reads the directory and queues its sub-directories.
ScanIterationRead ==
    /\ scanPc = "scanning"
    /\ ~ScanEnded(scan)
    /\ ~(ScanCurrent.depth > 0 /\ hasGitMetadata(ScanTrees[scanTree], ScanCurrent.path))
    /\ ScanCurrent.depth < MAX_DISCOVERY_DEPTH
    /\ \E listed \in {readdir(ScanTrees[scanTree], ScanCurrent.path)} :
          /\ listed.ok
          /\ \E entries \in {listed.entries, Reverse(listed.entries)} :
                scan' = ScanPush(scan, entries)
    /\ UNCHANGED <<scanPc, scanTree, scanRoot, scanResult>>
    /\ UNCHANGED <<hvars, pvars, lvars, cvars>>

\* The loop is over: the list is sorted and returned.
ScanReturn ==
    /\ scanPc = "scanning"
    /\ ScanEnded(scan)
    /\ scanResult' = SortByRelativePath(scan.discovered)
    /\ scanPc' = "done"
    /\ UNCHANGED <<scanTree, scanRoot, scan>>
    /\ UNCHANGED <<hvars, pvars, lvars, cvars>>

SNext ==
    \/ ScanIterationRecord
    \/ ScanIterationDepthLimit
    \/ ScanIterationReadFailed
    \/ ScanIterationRead
    \/ ScanReturn

\* buildGitStatusFiles not yet called: no result.
NoAggregate ==
    [stagedFiles |-> <<>>, unstagedFiles |-> <<>>, branch |-> null, repos |-> <<>>,
     totalStaged |-> 0, totalUnstaged |-> 0]

----------------------------------------------------------------------------
(* The line loops of parseStatusSummaryV2 and parseNumStat, one iteration a step *)

\* The longest body read line by line.
MaxStatusLines == 3

\* Lines of 'git status --porcelain=v2 --branch': what git writes, and lines
\* that begin as git's do and are cut short or garbled. 'part' is the list of
\* the summary a well-formed line belongs to ("none" for a line of no format).
StatusSamples ==
    {[text |-> "1 .M N... 100644 100644 100644 1111111 2222222 src/app.ts",
      part |-> "files", index |-> ".", workingDir |-> "M", path |-> "src/app.ts"],
     [text |-> "2 R. N... 100644 100644 100644 1111111 2222222 R100 src/new.ts\tsrc/old.ts",
      part |-> "files", index |-> "R", workingDir |-> ".", path |-> ""],
     [text |-> "u UU N... 100644 100644 100644 100644 1111111 2222222 3333333 merge.txt",
      part |-> "files", index |-> "U", workingDir |-> "U", path |-> "merge.txt"],
     [text |-> "? new-file.ts",
      part |-> "notAdded", index |-> "", workingDir |-> "", path |-> "new-file.ts"],
     [text |-> "! ignored.log",
      part |-> "ignored", index |-> "", workingDir |-> "", path |-> "ignored.log"],
     [text |-> "# branch.head main",
      part |-> "head", index |-> "", workingDir |-> "", path |-> "main"],
     [text |-> "1 .M N... 100644 src/app.ts",
      part |-> "none", index |-> "", workingDir |-> "", path |-> ""],
     [text |-> "2 R. N... 100644 100644 100644 1111111 2222222 R100 src/new.ts",
      part |-> "none", index |-> "", workingDir |-> "", path |-> ""],
     [text |-> "u UU broken",
      part |-> "none", index |-> "", workingDir |-> "", path |-> ""],
     [text |-> "# branch.ab +x -y",
      part |-> "none", index |-> "", workingDir |-> "", path |-> ""]}

\* Lines of 'git diff --numstat': counted, binary, renamed in both notations
\* (README is the source of a copy and is changed itself), and lines that are
\* not numstat lines.
NumstatSamples ==
    {"2\t1\tsrc/app.ts", "-\t-\tbin/file", "10\t0\tsrc/{old.txt => new.txt}",
     "3\t4\tdocs/{v1 => v2}/guide.md", "0\t7\tREADME => README.md",
     "1\t1\tlib/{ => core}/util.ts", "4\t4\tREADME", "5\t-\tmixed.bin",
     "warning: LF will be replaced", "x\t1\tbad"}

\* The texts given to the two parsers: up to MaxStatusLines lines joined by newlines.
LineTexts(samples) ==
    {Join(ls, "\n") : ls \in UNION {[1..n -> samples] : n \in 1..MaxStatusLines}}

LineInputs ==
    {[parser |-> "status", text |-> t] : t \in LineTexts({s.text : s \in StatusSamples})}
    \cup {[parser |-> "numstat", text |-> t] : t \in LineTexts(NumstatSamples)}

\* Both parsers: output.trim().split('\n').filter((line) => line.length > 0)
LinesOf(output) == SelectSeq(SplitAt(Trim(output), "\n"), NonEmptyLine)

LInit ==
    /\ lnIn \in LineInputs
    /\ lnPc = lnIn.parser
    /\ lnLines = LinesOf(lnIn.text)
    /\ lnIndex = 1
    /\ lnStatus = EmptySummary
    /\ lnDiff = EmptyDiffSummary
    /\ lnStats = <<>>

\* The line loops at rest.
LRest ==
    /\ lnPc = "rest"
    /\ lnIn = [parser |-> "rest", text |-> ""]
    /\ lnLines = <<>>
    /\ lnIndex = 1
    /\ lnStatus = EmptySummary
    /\ lnDiff = EmptyDiffSummary
    /\ lnStats = <<>>

\* parseStatusSummaryV2: one iteration of 'for (const line of lines)'.
LStatusLine ==
    /\ lnPc = "status"
    /\ lnIndex <= Len(lnLines)
    /\ lnStatus' = ParseStatusLine(lnStatus, lnLines[lnIndex])
    /\ lnIndex' = lnIndex + 1
    /\ UNCHANGED <<lnPc, lnIn, lnLines, lnDiff, lnStats>>
    /\ UNCHANGED <<hvars, pvars, svars, cvars>>

\* parseStatusSummaryV2: 'return result'.
LStatusReturn ==
    /\ lnPc = "status"
    /\ lnIndex > Len(lnLines)
    /\ lnPc' = "statusDone"
    /\ UNCHANGED <<lnIn, lnLines, lnIndex, lnStatus, lnDiff, lnStats>>
    /\ UNCHANGED <<hvars, pvars, svars, cvars>>

\* parseNumStat: one iteration of 'for (const line of lines)'.
LNumStatLine ==
    /\ lnPc = "numstat"
    /\ lnIndex <= Len(lnLines)
    /\ lnDiff' = ParseNumStatLine(lnDiff, lnLines[lnIndex])
    /\ lnIndex' = lnIndex + 1
    /\ UNCHANGED <<lnPc, lnIn, lnLines, lnStatus, lnStats>>
    /\ UNCHANGED <<hvars, pvars, svars, cvars>>

\* parseNumStat: 'return result'.
LNumStatReturn ==
    /\ lnPc = "numstat"
    /\ lnIndex > Len(lnLines)
    /\ lnPc' = "numstatDone"
    /\ UNCHANGED <<lnIn, lnLines, lnIndex, lnStatus, lnDiff, lnStats>>
    /\ UNCHANGED <<hvars, pvars, svars, cvars>>

\* createDiffStatsMap on the summary parseNumStat returned.
LStatsMap ==
    /\ lnPc = "numstatDone"
    /\ lnStats' = createDiffStatsMap(lnDiff)
    /\ lnPc' = "mapped"
    /\ UNCHANGED <<lnIn, lnLines, lnIndex, lnStatus, lnDiff>>
    /\ UNCHANGED <<hvars, pvars, svars, cvars>>

LNext ==
    \/ LStatusLine
    \/ LStatusReturn
    \/ LNumStatLine
    \/ LNumStatReturn
    \/ LStatsMap

----------------------------------------------------------------------------
(* Concurrent requests on one root: a step runs a request from one await to  *)
(* the next (the git process, lstat, readdir, and the return of an async     *)
(* function to its caller). Arrays are kept by identity in cHeap, so that a   *)
(* list shared through the cache is one object.                               *)

\* The requests in flight together.
MaxRequests == 2
RequestIds == 1..MaxRequests

\* Two repositories that readdir lists in an order that is not the sorted one.
TreeUnordered ==
    [dirs |-> {"/w", "/w/bb", "/w/a"}, files |-> {"/w/bb/x.ts"}, git |-> {"/w/bb", "/w/a"},
     unreadable |-> {}, listing |-> [d \in {"/w"} |-> <<"bb", "a">>]]
ConcTrees == {TreeUnordered, TreeEmpty}

\* The file of the git-diff-file requests.
ConcFilePath == "bb/x.ts"

NoScan == [queue |-> <<>>, index |-> 1, discovered |-> <<>>, scannedDirectories |-> 0]

\* A request whose git process in the requested directory is running.
NewRequest(op) ==
    [pc |-> "direct", op |-> op, st |-> NoScan, startedAt |-> 0, id |-> 0, repos |-> 0,
     snapshot |-> <<>>, idx |-> 0, cwds |-> <<>>, tree |-> TreeEmpty, stable |-> TRUE]

CInit ==
    /\ cReq \in [RequestIds -> {NewRequest(op) : op \in {"status", "diffFile"}}]
    /\ cHeap = <<>>
    /\ cCache = null
    /\ cNow = 0
    /\ cDisk \in ConcTrees
    /\ cFinished = {}

\* No concurrent request.
CRest ==
    /\ cReq = <<>>
    /\ cHeap = <<>>
    /\ cCache = null
    /\ cNow = 0
    /\ cDisk = TreeEmpty
    /\ cFinished = {}

\* discoverNestedGitRepos from the head of an iteration to its next await:
\* lstat for a directory below the root, readdir for the root; when the loop
\* is over, the function is about to return.
AtLoopHead(req, st) ==
    [req EXCEPT !.st = st,
                !.pc = IF ScanEnded(st) THEN "returning"
                       ELSE IF st.queue[st.index].depth > 0 THEN "lstat"
                       ELSE "readdir"]

\* The array 'discovered' of a request at a loop head: sorted in place when
\* the loop is over.
DiscoveredAtLoopHead(st) ==
    IF ScanEnded(st) THEN SortByRelativePath(st.discovered) ELSE st.discovered

\* The scans finished, with the scan of the request when its loop is over.
FinishedAtLoopHead(finished, req, st) ==
    IF ScanEnded(st)
    THEN finished \cup {[id |-> req.id, list |-> SortByRelativePath(st.discovered),
                         tree |-> req.tree, stable |-> req.stable]}
    ELSE finished

\* The git process in the requested directory failed with 'not a git
\* repository'; the fallback calls getNestedRepos, which returns the cached
\* list or calls discoverNestedGitRepos, suspended at its first readdir.
CGetNestedRepos(r) ==
    /\ cReq[r].pc = "direct"
    /\ IF cCache # null /\ cCache[1].expiresAt > cNow
       THEN /\ cReq' = [cReq EXCEPT ![r].pc = "have",
                                    ![r].repos = cCache[1].repos,
                                    ![r].snapshot = cHeap[cCache[1].repos]]
            /\ UNCHANGED cHeap
       ELSE /\ cReq' = [cReq EXCEPT ![r] =
                           AtLoopHead([@ EXCEPT !.startedAt = cNow, !.id = Len(cHeap) + 1,
                                                !.tree = cDisk, !.stable = TRUE],
                                      ScanStart(workingDirectory))]
            /\ cHeap' = Append(cHeap, <<>>)
    /\ UNCHANGED <<cCache, cNow, cDisk, cFinished>>
    /\ UNCHANGED <<hvars, pvars, svars, lvars>>

\* lstat returned: the directory is recorded in 'discovered', or is skipped at
\* the depth limit, or is read.
CLstatReturn(r) ==
    /\ cReq[r].pc = "lstat"
    /\ IF hasGitMetadata(cDisk, cReq[r].st.queue[cReq[r].st.index].path)
       THEN \E next \in {ScanRecord(workingDirectory, cReq[r].st)} :
               /\ cReq' = [cReq EXCEPT ![r] = AtLoopHead(@, next)]
               /\ cHeap' = [cHeap EXCEPT ![cReq[r].id] = DiscoveredAtLoopHead(next)]
               /\ cFinished' = FinishedAtLoopHead(cFinished, cReq[r], next)
       ELSE IF cReq[r].st.queue[cReq[r].st.index].depth >= MAX_DISCOVERY_DEPTH
       THEN \E next \in {ScanSkip(cReq[r].st)} :
               /\ cReq' = [cReq EXCEPT ![r] = AtLoopHead(@, next)]
               /\ cHeap' = [cHeap EXCEPT ![cReq[r].id] = DiscoveredAtLoopHead(next)]
               /\ cFinished' = FinishedAtLoopHead(cFinished, cReq[r], next)
       ELSE /\ cReq' = [cReq EXCEPT ![r].pc = "readdir"]
            /\ UNCHANGED <<cHeap, cFinished>>
    /\ UNCHANGED <<cCache, cNow, cDisk>>
    /\ UNCHANGED <<hvars, pvars, svars, lvars>>

\* readdir returned or threw.
CReaddirReturn(r) ==
    /\ cReq[r].pc = "readdir"
    /\ \E listed \in {readdir(cDisk, cReq[r].st.queue[cReq[r].st.index].path)} :
       \E next \in {IF listed.ok THEN ScanPush(cReq[r].st, listed.entries)
                    ELSE ScanSkip(cReq[r].st)} :
          /\ cReq' = [cReq EXCEPT ![r] = AtLoopHead(@, next)]
          /\ cHeap' = [cHeap EXCEPT ![cReq[r].id] = DiscoveredAtLoopHead(next)]
          /\ cFinished' = FinishedAtLoopHead(cFinished, cReq[r], next)
    /\ UNCHANGED <<cCache, cNow, cDisk>>
    /\ UNCHANGED <<hvars, pvars, svars, lvars>>

\* discoverNestedGitRepos returned its array to getNestedRepos, which sets the
\* cache entry and returns the same array.
CStoreAndReturn(r) ==
    /\ cReq[r].pc = "returning"
    /\ cCache' = Some([repos |-> cReq[r].id,
                       expiresAt |-> cReq[r].startedAt + DISCOVERY_CACHE_TTL_MS])
    /\ cReq' = [cReq EXCEPT ![r].pc = "have",
                            ![r].repos = cReq[r].id,
                            ![r].snapshot = cHeap[cReq[r].id]]
    /\ UNCHANGED <<cHeap, cNow, cDisk, cFinished>>
    /\ UNCHANGED <<hvars, pvars, svars, lvars>>

\* A fallback that sorts the list it was given.
FilterAndSort_InPlace(heap, repos, absoluteFilePath) ==
    [heap |-> [heap EXCEPT ![repos] =
                   SortedBy(@, LAMBDA a, b : Len(b.absolutePath) - Len(a.absolutePath))],
     matching |-> repos]

\* repos.filter((repo) => isPathInside(...)).sort(by absolutePath length,
\* longest first): filter makes a new array, which sort orders in place.
FilterAndSort(heap, repos, absoluteFilePath) ==
    [heap |-> Append(heap,
                  SortedBy(SelectSeq(heap[repos],
                                     LAMBDA repo : isPathInside(absoluteFilePath, repo.absolutePath)),
                           LAMBDA a, b : Len(b.absolutePath) - Len(a.absolutePath))),
     matching |-> Len(heap) + 1]

\* getNestedRepos returned to the fallback: no repository is an error; the
\* status fallback starts git in the first repository; the diff-file fallback
\* picks the repository of the file and starts git in it.
CFallback(r) ==
    /\ cReq[r].pc = "have"
    /\ IF Len(cHeap[cReq[r].repos]) = 0
       THEN /\ cReq' = [cReq EXCEPT ![r].pc = "done"]
            /\ UNCHANGED cHeap
       ELSE IF cReq[r].op = "status"
       THEN /\ cReq' = [cReq EXCEPT ![r].pc = "fan", ![r].idx = 1,
                                    ![r].cwds = <<cHeap[cReq[r].repos][1].absolutePath>>]
            /\ UNCHANGED cHeap
       ELSE \E m \in {FilterAndSort(cHeap, cReq[r].repos, resolve(workingDirectory, ConcFilePath))} :
               /\ cHeap' = m.heap
               /\ cReq' = IF Len(m.heap[m.matching]) = 0
                          THEN [cReq EXCEPT ![r].pc = "done"]
                          ELSE [cReq EXCEPT ![r].pc = "proc",
                                            ![r].cwds = <<m.heap[m.matching][1].absolutePath>>]
    /\ UNCHANGED <<cCache, cNow, cDisk, cFinished>>
    /\ UNCHANGED <<hvars, pvars, svars, lvars>>

\* The git process of one repository returned: the loop goes to the next
\* repository of the list, or is over.
CFanoutReturn(r) ==
    /\ cReq[r].pc = "fan"
    /\ cReq' = IF cReq[r].idx < Len(cHeap[cReq[r].repos])
               THEN [cReq EXCEPT ![r].idx = @ + 1,
                                 ![r].cwds = Append(@, cHeap[cReq[r].repos][cReq[r].idx + 1].absolutePath)]
               ELSE [cReq EXCEPT ![r].pc = "done"]
    /\ UNCHANGED <<cHeap, cCache, cNow, cDisk, cFinished>>
    /\ UNCHANGED <<hvars, pvars, svars, lvars>>

\* The git process of the diff-file fallback returned.
CDiffFileReturn(r) ==
    /\ cReq[r].pc = "proc"
    /\ cReq' = [cReq EXCEPT ![r].pc = "done"]
    /\ UNCHANGED <<cHeap, cCache, cNow, cDisk, cFinished>>
    /\ UNCHANGED <<hvars, pvars, svars, lvars>>

\* Time passes while requests are suspended.
CTick ==
    /\ cReq # <<>>
    /\ cNow < TickMs * MaxTicks
    /\ cNow' = cNow + TickMs
    /\ UNCHANGED <<cReq, cHeap, cCache, cDisk, cFinished>>
    /\ UNCHANGED <<hvars, pvars, svars, lvars>>

\* A repository is removed while requests are suspended: a scan in progress
\* has then read two trees.
CFsChange ==
    /\ cReq # <<>>
    /\ cDisk = TreeUnordered
    /\ cDisk' = TreeEmpty
    /\ cReq' = [r \in DOMAIN cReq |->
                   IF cReq[r].pc \in {"lstat", "readdir"}
                   THEN [cReq[r] EXCEPT !.stable = FALSE] ELSE cReq[r]]
    /\ UNCHANGED <<cHeap, cCache, cNow, cFinished>>
    /\ UNCHANGED <<hvars, pvars, svars, lvars>>

CNext ==
    \/ \E r \in RequestIds : CGetNestedRepos(r)
    \/ \E r \in RequestIds : CLstatReturn(r)
    \/ \E r \in RequestIds : CReaddirReturn(r)
    \/ \E r \in RequestIds : CStoreAndReturn(r)
    \/ \E r \in RequestIds : CFallback(r)
    \/ \E r \in RequestIds : CFanoutReturn(r)
    \/ \E r \in RequestIds : CDiffFileReturn(r)
    \/ CTick
    \/ CFsChange

\* The parser side at rest.
PRest ==
    /\ pPc = "rest"
    /\ pIn = [kind |-> "raw", text |-> ""]
    /\ statusOutput = ""
    /\ unstagedDiffOutput = ""
    /\ stagedDiffOutput = ""
    /\ pSections = <<>>
    /\ pAgg = NoAggregate

Init == HInit /\ PRest /\ SRest /\ LRest /\ CRest

Next ==
    \/ HBegin
    \/ HDirectReturn
    \/ HDiscover
    \/ HFanoutReturn
    \/ HNestedDiffReturn
    \/ HRespond
    \/ Tick
    \/ FsChange

Spec == Init /\ [][Next]_vars

----------------------------------------------------------------------------
(* Claims on the handlers *)

\* The diagnostic phrases that mean "this directory is not a repository".
NotARepositoryPhrases ==
    {"not a git repository", "use --no-index to compare two paths outside a working tree",
     "usage: git diff --no-index", "unknown option " \o GRAVE \o "cached" \o GRAVE}

\* The error and stderr text of a result holds one of the phrases, in any case.
MentionsNotARepository(r) ==
    \E text \in {ToLowerCase(Coalesce(Field(r, "error"), "") \o "\n" \o Coalesce(Field(r, "stderr"), ""))} :
        \E phrase \in NotARepositoryPhrases : Includes(text, phrase)

\* The request ran its direct command and that command has returned.
DirectReturned == Len(procResults) >= 1

\* The request went through the status / numstat fan-out: commands were run in
\* nested repositories.
FannedOut == hReq.op \in {"status", "numstat"} /\ Len(procLog) >= 2

\* C1: for each of the three operations, when the direct command succeeded, or
\* failed with an error and stderr text that holds none of the "not a
\* repository" phrases in any letter case, the handler's response is that
\* result itself, no discovery scan ran, no repository list was fetched and the
\* direct command is the only process the request started.
C1_DirectResultReturned ==
    (DirectReturned /\ (procResults[1].success \/ ~MentionsNotARepository(procResults[1])))
        => /\ hPc = "done"
           /\ response = Some(procResults[1])
           /\ scans = 0
           /\ nestedRepos = <<>>
           /\ Len(procLog) = 1
           /\ inFlight = {}

C1_Witness ==
    /\ hPc = "done"
    /\ hReq.op = "diffFile"
    /\ Len(procResults) = 1
    /\ ~procResults[1].success
    /\ procResults[1].stderr = StderrOther
    /\ response = Some(procResults[1])
    /\ disk = TreeTwo

\* The repositories of the fan-out whose command succeeded, and those whose
\* command failed, in the order they were queried.
Succeeded == SelectSeq([i \in 1..Len(nestedRepos) |-> i], LAMBDA i : procResults[i + 1].success)
Failed == SelectSeq([i \in 1..Len(nestedRepos) |-> i], LAMBDA i : ~procResults[i + 1].success)

\* C2: when a status / numstat fan-out over a non-empty repository list has
\* ended, the response is a success exactly when some repository's command
\* succeeded; a success has exit code 0, its stdout is the framed sections of
\* the repositories that succeeded and of no other, joined by newlines, and its
\* stderr is one "[relative path] message" warning for each repository that
\* failed, joined by newlines, hence empty when none failed.
C2_PartialFailure ==
    (hPc = "done" /\ FannedOut)
        => /\ response # null
           /\ response[1].success <=> (Succeeded # <<>>)
           /\ response[1].success =>
                /\ response[1].exitCode = 0
                /\ response[1].stdout =
                     Join([k \in 1..Len(Succeeded) |->
                             wrapRepoSectionOutput(nestedRepos[Succeeded[k]].relativePath,
                                                   procResults[Succeeded[k] + 1].stdout)], "\n")
                /\ response[1].stderr =
                     Join([k \in 1..Len(Failed) |->
                             "[" \o nestedRepos[Failed[k]].relativePath \o "] "
                                 \o procResults[Failed[k] + 1].error], "\n")
                /\ (Failed = <<>>) => response[1].stderr = ""

C2_Witness ==
    /\ hPc = "done"
    /\ hReq.op = "numstat"
    /\ Len(nestedRepos) = 2
    /\ Len(procResults) = 3
    /\ ~procResults[2].success
    /\ procResults[3].success
    /\ procResults[3].stdout # ""
    /\ response # null
    /\ response[1].success
    /\ response[1].stdout = wrapRepoSectionOutput("Lib", procResults[3].stdout)
    /\ response[1].stderr = "[apps] " \o procResults[2].error

\* C3: for each of the three operations, when the direct command failed with a
\* "not a repository" text and the repository list came back empty, the
\* response is a failure whose error holds 'no nested git repositories', and
\* the direct command is the only process the request started.
C3_NoNestedRepositories ==
    (hPc = "done" /\ DirectReturned /\ ~procResults[1].success
        /\ MentionsNotARepository(procResults[1]) /\ nestedRepos = <<>>)
        => /\ response # null
           /\ ~response[1].success
           /\ Includes(response[1].error, "no nested git repositories")
           /\ Len(procLog) = 1
           /\ inFlight = {}

C3_Witness ==
    /\ hPc = "done"
    /\ hReq.op = "diffFile"
    /\ DirectReturned
    /\ procResults[1].stderr = StderrNotARepoCapital
    /\ scans = 1
    /\ nestedRepos = <<>>
    /\ response # null
    /\ Includes(response[1].error, "no nested git repositories")
    /\ Len(procLog) = 1

\* The strings of a sequence ascend strictly under localeCompare, the
\* comparison the discovery sorts with.
Ascending(names) ==
    \A i \in 1..Len(names) : \A j \in 1..Len(names) :
        i < j => localeCompare(names[i], names[j]) < 0

\* The repository names of the sections of a framed stream.
SectionNames(stdout) ==
    Bind(splitRepoSections(stdout), LAMBDA secs : [i \in 1..Len(secs) |-> Coalesce(secs[i].repo, "")])

IsAncestor(dir, path) == StartsWith(path, dir \o "/")

\* C5: in the diffFile fallback over a non-empty repository list, when some
\* repository's directory is an ancestor of the file's resolved path, one diff
\* is run, in the ancestor with the longest path and on the file's path
\* relative to it, and its result is the response; when none is, the
\* response is a failure saying the file is not inside a nested git
\* repository and no further process is started.
C5_DiffFileTarget ==
    (hPc = "done" /\ hReq.op = "diffFile" /\ DirectReturned /\ ~procResults[1].success
        /\ MentionsNotARepository(procResults[1]) /\ nestedRepos # <<>>)
        => \E abs \in {resolve(hReq.cwd, hReq.filePath)} :
           \E ancestors \in {{i \in 1..Len(nestedRepos) : IsAncestor(nestedRepos[i].absolutePath, abs)}} :
              IF ancestors = {}
              THEN /\ response # null
                   /\ ~response[1].success
                   /\ Includes(response[1].error, "is not inside a nested git repository")
                   /\ Len(procLog) = 1
              ELSE \E t \in ancestors :
                   /\ \A i \in ancestors :
                        Len(nestedRepos[i].absolutePath) <= Len(nestedRepos[t].absolutePath)
                   /\ Len(procLog) = 2
                   /\ procLog[2] = Invocation(
                          DiffFileArgs(hReq.staged, relative(nestedRepos[t].absolutePath, abs)),
                          nestedRepos[t].absolutePath)
                   /\ Len(procResults) = 2
                   /\ response = Some(procResults[2])

\* C6: when validatePath rejects the working directory (any operation) or the
\* file path (diffFile), the handler has returned a failure, and the request
\* started no process and ran no discovery scan.
C6_ValidationRejects ==
    (hReq.op # "none"
        /\ (~hReq.cwdValidation.valid \/ (hReq.op = "diffFile" /\ ~hReq.fileValidation.valid)))
        => /\ hPc = "done"
           /\ response # null
           /\ ~response[1].success
           /\ procLog = <<>>
           /\ inFlight = {}
           /\ scans = 0
           /\ nestedRepos = <<>>

C6_Witness ==
    /\ hPc = "done"
    /\ hReq.op = "diffFile"
    /\ hReq.cwdValidation.valid
    /\ hReq.fileValidation = [valid |-> FALSE]
    /\ response = Some([success |-> FALSE, error |-> "Invalid file path"])
    /\ procLog = <<>>
    /\ repoDiscoveryCache # EmptyCache

\* The outcome is a timeout or a kill: the error has code 'ETIMEDOUT' or is
\* marked killed.
TimedOutOrKilled(o) == ~o.ok /\ (o.killed \/ o.code = StrCode("ETIMEDOUT"))

\* C7: every process that returned has a result object with a boolean success;
\* exit 0 gives success with exit code 0 and the output; a timeout or a kill
\* gives a failure whose error is 'Command timed out'; any other failure gives
\* success = false with a non-empty error; a failure's stdout is the captured
\* stdout and its stderr is the captured stderr whenever any was captured.
C7_RunGitCommandTotal ==
    /\ Len(procResults) = Len(procOutcomes)
    /\ \A i \in 1..Len(procResults) :
         \E o \in {procOutcomes[i]} : \E r \in {procResults[i]} :
            /\ "success" \in DOMAIN r
            /\ r.success \in BOOLEAN
            /\ r.success <=> o.ok
            /\ o.ok => r.exitCode = 0 /\ r.stdout = o.stdout /\ r.stderr = o.stderr
            /\ TimedOutOrKilled(o) => ~r.success /\ r.error = "Command timed out"
            /\ (~o.ok /\ ~TimedOutOrKilled(o)) =>
                  ~r.success /\ r.error # "" /\ r.error # "Command timed out"
            /\ ~o.ok => /\ r.stdout = o.stdout
                        /\ o.stderr # "" => r.stderr = o.stderr
                        /\ r.exitCode # 0

C7_Witness ==
    /\ Len(procResults) = 3
    /\ procOutcomes[1] = ExecKilled("", StderrNotARepo)
    /\ procResults[1] = [success |-> FALSE, error |-> "Command timed out", stdout |-> "",
                         stderr |-> StderrNotARepo, exitCode |-> -1]
    /\ procOutcomes[2] = ExecSpawn("ENOENT")
    /\ procResults[2] = [success |-> FALSE, error |-> "spawn git ENOENT", stdout |-> "",
                         stderr |-> "spawn git ENOENT", exitCode |-> 1]
    /\ procOutcomes[3].ok
    /\ procResults[3].success
    /\ procResults[3].exitCode = 0
----------------------------------------------------------------------------
(* The parser side as a state machine: an input is drawn, rendered to the   *)
(* status stream, split into sections and aggregated.                       *)

MaxBodyLines == 2
MaxSections == 2
MaxRawLines == 3

\* All sequences over S of length lo..hi.
SeqsOf(S, lo, hi) == UNION {[1..k -> S] : k \in lo..hi}

\* Repository names: relative paths of nested directories (never empty, git.ts:179).
FrameNames == {"a", "my repo", "pkg/lib-b", "x%2Fy"}
MultiNames == {"a", "my repo", "pkg/b"}

\* Lines a section body is made of: git output, white space, and lines that are
\* or resemble the framing markers.
BodyLines ==
    {"", "# branch.head main", "? new file.ts ", "\t3\t1\tsrc/a.ts", "@@HAPI_REPO zz",
     "@@HAPI_REPO_END", " @@HAPI_REPO_END\r", "@@HAPI_REPO_ENDING", "  @@HAPI_REPO zz"}
Bodies == {Join(ls, "\n") : ls \in SeqsOf(BodyLines, 0, MaxBodyLines)}
MultiBodies == {"", " # branch.head main\n? f \n", "x\n@@HAPI_REPO_END\ny"}

\* Lines of a stream given as it is.
RawLines ==
    {"", "# branch.head main", "@@HAPI_REPO ", "@@HAPI_REPO a", "@@HAPI_REPO my%20repo",
     "@@HAPI_REPO_END", " @@HAPI_REPO_END ", "@@HAPI_REPO_ENDING", " @@HAPI_REPO a"}
RawStreams == {Join(ls, "\n") : ls \in SeqsOf(RawLines, 0, MaxRawLines)}

\* What git reports of a repository: the checked-out head and whether the work
\* tree has changes.
Heads == {"main", "feature/x", "(detached)"}
GitStates(names) == [name : names, head : Heads, dirty : BOOLEAN]

\* The output of git status --porcelain=v2 --branch --untracked-files=all.
GitStatusText(st) ==
    "# branch.oid 1111111\n# branch.head " \o st.head \o "\n"
    \o (IF st.dirty
        THEN "1 .M N... 100644 100644 100644 1111111 1111111 src/app.ts\n? new-file.ts\n"
        ELSE "")

\* Change records as git reports them (porcelain v2): the kind of line, the
\* index and worktree characters, the path, the origin path of a rename, and the
\* path as git diff --numstat prints it.
MaxRecords == 2
StatusChars == {".", " ", "?", "M", "A", "D", "R", "C", "U", "T"}
ChangeRecords(chars) ==
    [kind : {"1"}, x : chars, y : chars, path : {"src/app.ts"}, orig : {""},
     numstat : {"src/app.ts"}]
    \cup [kind : {"2"}, x : chars, y : chars, path : {"src/new.ts"}, orig : {"src/old.ts"},
          numstat : {"src/{old.ts => new.ts}"}]
    \cup [kind : {"u"}, x : chars, y : chars, path : {"merge.txt"}, orig : {""},
          numstat : {"merge.txt"}]
UntrackedRecords ==
    [kind : {"?"}, x : {"?"}, y : {"?"}, path : {"new-file.ts", "docs/n.md", "tmp/"},
     orig : {""}, numstat : {""}]
AllRecords == ChangeRecords(StatusChars) \cup UntrackedRecords
SmallRecords ==
    {r \in AllRecords :
        \/ r.kind = "1" /\ <<r.x, r.y>> \in {<<".", "M">>, <<"M", "M">>}
        \/ r.kind = "2" /\ <<r.x, r.y>> = <<"R", ".">>
        \/ r.kind = "u" /\ <<r.x, r.y>> = <<"U", "U">>
        \/ r.kind = "?" /\ r.path \in {"new-file.ts", "tmp/"}}

\* One line of git status --porcelain=v2 for a record:
\*   1 XY sub mH mI mW hH hI path
\*   2 XY sub mH mI mW hH hI Xscore path<TAB>origPath
\*   u XY sub m1 m2 m3 mW h1 h2 h3 path
\*   ? path
RecordLine(rec) ==
    IF rec.kind = "1"
    THEN "1 " \o rec.x \o rec.y \o " N... 100644 100644 100644 1111111 2222222 " \o rec.path
    ELSE IF rec.kind = "2"
    THEN "2 " \o rec.x \o rec.y \o " N... 100644 100644 100644 1111111 2222222 R100 "
         \o rec.path \o "\t" \o rec.orig
    ELSE IF rec.kind = "u"
    THEN "u " \o rec.x \o rec.y
         \o " N... 100644 100644 100644 100644 1111111 2222222 3333333 " \o rec.path
    ELSE "? " \o rec.path

\* The status output of a repository on branch main with the given records.
RecordsStatusText(records) ==
    Join(<<"# branch.oid 1111111", "# branch.head main">>
         \o [i \in DOMAIN records |-> RecordLine(records[i])], "\n")

\* Whether git diff (--cached when staged) has a line for the record.
InDiff(rec, staged) ==
    /\ rec.kind # "?"
    /\ IF staged THEN rec.x \notin {".", " ", "?"} ELSE rec.y \notin {".", " "}

\* The numstat output of a repository with the given records.
RecordsNumstatText(records, staged) ==
    Join([i \in 1..Len(SelectSeq(records, LAMBDA r : InDiff(r, staged))) |->
            (IF staged THEN "2\t0\t" ELSE "3\t1\t")
            \o SelectSeq(records, LAMBDA r : InDiff(r, staged))[i].numstat], "\n")

\* Repositories with records: one repository read directly (name null), or
\* nested repositories.
StatusInputs ==
    {[kind |-> "status", sections |-> <<[name |-> n, records |-> <<r>>]>>, diffs |-> TRUE] :
        n \in {null, Some("a")}, r \in AllRecords}
    \cup {[kind |-> "status", sections |-> <<[name |-> n, records |-> rs]>>, diffs |-> d] :
            n \in {null, Some("a"), Some("pkg/b")}, rs \in SeqsOf(SmallRecords, 0, MaxRecords),
            d \in BOOLEAN}
    \cup {[kind |-> "status", sections |-> ss, diffs |-> d] :
            ss \in SeqsOf([name : {Some("a"), Some("pkg/b")},
                           records : SeqsOf(SmallRecords, 1, 1)], 2, MaxSections),
            d \in BOOLEAN}

\* Repositories that all changed the same relative path, src/app.ts, each with
\* line counts of its own in each of the two diffs. 'xy' is the pair of status
\* characters; a diff of a repository is "line" (the numstat line of the
\* path), "empty" (a section without the line) or "missing" (no section: the
\* diff of the repository failed). The diff streams list the repositories in
\* the order of the status stream or in the reverse order.
DiffOptions == {"line", "empty", "missing"}
StatsSections(names) ==
    [name : names, xy : {"MM", ".M", "M."}, stagedDiff : DiffOptions, unstagedDiff : DiffOptions]
StatsInputs ==
    {[kind |-> "stats", sections |-> <<sec>>, reversed |-> FALSE] : sec \in StatsSections({null})}
    \cup {[kind |-> "stats", sections |-> <<a, b>>, reversed |-> rev] :
            a \in StatsSections({Some("a")}), b \in StatsSections({Some("pkg/b")}),
            rev \in BOOLEAN}

\* The numstat line of src/app.ts in the diff of a repository.
StatsNumstatLine(name, staged) ==
    CASE name = Some("a") /\ staged -> "1\t2\tsrc/app.ts"
      [] name = Some("a") /\ ~staged -> "3\t4\tsrc/app.ts"
      [] name = Some("pkg/b") /\ staged -> "5\t6\tsrc/app.ts"
      [] name = Some("pkg/b") /\ ~staged -> "7\t8\tsrc/app.ts"
      [] OTHER -> IF staged THEN "9\t10\tsrc/app.ts" ELSE "11\t12\tsrc/app.ts"

\* The status output of a section of a stats input.
StatsStatusText(sec) ==
    RecordsStatusText(<<[kind |-> "1", x |-> SubSeq(sec.xy, 1, 1), y |-> SubSeq(sec.xy, 2, 2),
                         path |-> "src/app.ts", orig |-> "", numstat |-> "src/app.ts"]>>)

\* The diff stream of a stats input: the output of git diff --numstat of one
\* repository read directly, or the framed outputs of the repositories whose
\* diff succeeded.
StatsDiffText(in, staged) ==
    IF in.sections[1].name = null
    THEN IF (IF staged THEN in.sections[1].stagedDiff ELSE in.sections[1].unstagedDiff) = "line"
         THEN StatsNumstatLine(null, staged) ELSE ""
    ELSE Bind(SelectSeq(IF in.reversed THEN Reverse(in.sections) ELSE in.sections,
                        LAMBDA sec : (IF staged THEN sec.stagedDiff ELSE sec.unstagedDiff) # "missing"),
              LAMBDA present :
                  Join([i \in 1..Len(present) |->
                           wrapRepoSectionOutput(present[i].name[1],
                               IF (IF staged THEN present[i].stagedDiff ELSE present[i].unstagedDiff) = "line"
                               THEN StatsNumstatLine(present[i].name, staged) ELSE "")], "\n"))

ParserInputs ==
    {[kind |-> "frames", frames |-> <<[name |-> n, body |-> b]>>] : n \in FrameNames, b \in Bodies}
    \cup {[kind |-> "frames", frames |-> fs] :
            fs \in SeqsOf([name : MultiNames, body : MultiBodies], 2, MaxSections)}
    \cup {[kind |-> "raw", text |-> t] : t \in RawStreams}
    \cup {[kind |-> "git", repos |-> <<g>>] : g \in GitStates({null})}
    \cup {[kind |-> "git", repos |-> gs] :
            gs \in SeqsOf(GitStates({Some(n) : n \in MultiNames}), 1, MaxSections)}

\* A git-state input is the direct output of one repository (no framing).
IsDirect(in) == in.kind = "git" /\ Len(in.repos) = 1 /\ in.repos[1].name = null

\* A status input is the direct output of one repository (no framing).
IsDirectStatus(in) == in.kind = "status" /\ Len(in.sections) = 1 /\ in.sections[1].name = null

\* The stream the input stands for: wrapped sections joined by newlines
\* (git.ts:259, 269), or the text as it is.
RenderInput(in) ==
    IF in.kind = "raw" THEN in.text
    ELSE IF in.kind = "stats"
    THEN IF in.sections[1].name = null THEN StatsStatusText(in.sections[1])
         ELSE Join([i \in 1..Len(in.sections) |->
                      wrapRepoSectionOutput(in.sections[i].name[1],
                                            StatsStatusText(in.sections[i]))], "\n")
    ELSE IF in.kind = "frames"
    THEN Join([i \in 1..Len(in.frames) |->
                 wrapRepoSectionOutput(in.frames[i].name, in.frames[i].body)], "\n")
    ELSE IF IsDirectStatus(in) THEN RecordsStatusText(in.sections[1].records)
    ELSE IF in.kind = "status"
    THEN Join([i \in 1..Len(in.sections) |->
                 wrapRepoSectionOutput(in.sections[i].name[1],
                                       RecordsStatusText(in.sections[i].records))], "\n")
    ELSE IF IsDirect(in) THEN GitStatusText(in.repos[1])
    ELSE Join([i \in 1..Len(in.repos) |->
                 wrapRepoSectionOutput(in.repos[i].name[1], GitStatusText(in.repos[i]))], "\n")

\* The numstat stream that goes with the input: empty, or for a status input
\* with diffs the numstat output of each repository, framed like the status.
RenderDiff(in, staged) ==
    IF in.kind = "stats" THEN StatsDiffText(in, staged)
    ELSE IF in.kind # "status" THEN ""
    ELSE IF ~in.diffs THEN ""
    ELSE IF IsDirectStatus(in) THEN RecordsNumstatText(in.sections[1].records, staged)
    ELSE Join([i \in 1..Len(in.sections) |->
                 wrapRepoSectionOutput(in.sections[i].name[1],
                                       RecordsNumstatText(in.sections[i].records, staged))], "\n")

PInit ==
    /\ pPc = "input"
    /\ pIn \in ParserInputs
    /\ statusOutput = ""
    /\ unstagedDiffOutput = ""
    /\ stagedDiffOutput = ""
    /\ pSections = <<>>
    /\ pAgg = NoAggregate

\* The stream is produced.
PFrame ==
    /\ pPc = "input"
    /\ statusOutput' = RenderInput(pIn)
    /\ unstagedDiffOutput' = RenderDiff(pIn, FALSE)
    /\ stagedDiffOutput' = RenderDiff(pIn, TRUE)
    /\ pPc' = "framed"
    /\ UNCHANGED <<pIn, pSections, pAgg>>
    /\ UNCHANGED <<hvars, svars, lvars, cvars>>

\* splitRepoSections(statusOutput)
PSplit ==
    /\ pPc = "framed"
    /\ pSections' = splitRepoSections(statusOutput)
    /\ pPc' = "split"
    /\ UNCHANGED <<pIn, statusOutput, unstagedDiffOutput, stagedDiffOutput, pAgg>>
    /\ UNCHANGED <<hvars, svars, lvars, cvars>>

\* buildGitStatusFiles(statusOutput, ...)
PBuild ==
    /\ pPc = "split"
    /\ pAgg' = buildGitStatusFiles(statusOutput, unstagedDiffOutput, stagedDiffOutput)
    /\ pPc' = "built"
    /\ UNCHANGED <<pIn, statusOutput, unstagedDiffOutput, stagedDiffOutput, pSections>>
    /\ UNCHANGED <<hvars, svars, lvars, cvars>>

PNext == PFrame \/ PSplit \/ PBuild

\* The handler side at rest.
HRest == HInit /\ disk = TreeEmpty

ParseInit == PInit /\ HRest /\ SRest /\ LRest /\ CRest

SpecParse == ParseInit /\ [][PNext]_vars

\* The aggregation of status records: the same machine, started on a status input.
FilesInit ==
    /\ pPc = "input"
    /\ pIn \in StatusInputs
    /\ statusOutput = ""
    /\ unstagedDiffOutput = ""
    /\ stagedDiffOutput = ""
    /\ pSections = <<>>
    /\ pAgg = NoAggregate
    /\ HRest
    /\ SRest
    /\ LRest
    /\ CRest

SpecFiles == FilesInit /\ [][PNext]_vars

\* The aggregation of line counts: the same machine, started on a stats input.
StatsInit ==
    /\ pPc = "input"
    /\ pIn \in StatsInputs
    /\ statusOutput = ""
    /\ unstagedDiffOutput = ""
    /\ stagedDiffOutput = ""
    /\ pSections = <<>>
    /\ pAgg = NoAggregate
    /\ HRest
    /\ SRest
    /\ LRest
    /\ CRest

SpecStats == StatsInit /\ [][PNext]_vars

\* One discovery scan.
ScanInit == SInit /\ HRest /\ PRest /\ LRest /\ CRest

SpecScan == ScanInit /\ [][SNext]_vars

\* The line loops of the two parsers.
LinesInit == LInit /\ HRest /\ PRest /\ SRest /\ CRest

SpecLines == LinesInit /\ [][LNext]_vars

\* Concurrent requests on one root.
ConcInit == CInit /\ HRest /\ PRest /\ SRest /\ LRest

SpecConc == ConcInit /\ [][CNext]_vars

----------------------------------------------------------------------------
(* Claims on the framing and the aggregation *)

\* No line of the text is a framing marker, as the splitter reads markers.
NoMarkerLine(text) ==
    \A i \in 1..Len(SplitAt(text, "\n")) :
        LET line == SplitAt(text, "\n")[i]
        IN  ~StartsWith(line, HAPI_REPO_SECTION_PREFIX) /\ Trim(line) # HAPI_REPO_SECTION_END

\* The sections a sequence of frames must come back as.
FramesAsSections(frames) ==
    [i \in 1..Len(frames) |-> [repo |-> Some(frames[i].name), output |-> Trim(frames[i].body)]]

\* C8 as stated: for any repository name and any body text, splitting the
\* newline-joined wrapped sections gives back the same (name, trimmed body)
\* pairs in the same order.
C8_RoundTripAnyBody ==
    (pPc \in {"split", "built"} /\ pIn.kind = "frames")
        => pSections = FramesAsSections(pIn.frames)

\* What holds of the round trip: it is exact for any repository name and any
\* body none of whose lines (after the body is trimmed) starts with the start
\* marker or is the end marker once trimmed.
RoundTripWithoutMarkerLines ==
    (/\ pPc \in {"split", "built"}
     /\ pIn.kind = "frames"
     /\ \A i \in 1..Len(pIn.frames) : NoMarkerLine(Trim(pIn.frames[i].body)))
        => pSections = FramesAsSections(pIn.frames)

\* Two sections, a name with a space and one with a slash, a body that
\* trimming shortens, split back exactly.
RoundTripReached ==
    /\ pPc = "split"
    /\ pIn.kind = "frames"
    /\ Len(pIn.frames) = 2
    /\ pIn.frames[1].name = "my repo"
    /\ pIn.frames[2].name = "pkg/b"
    /\ pIn.frames[1].body # Trim(pIn.frames[1].body)
    /\ Trim(pIn.frames[1].body) # ""
    /\ \A i \in 1..2 : NoMarkerLine(Trim(pIn.frames[i].body))
    /\ pSections = FramesAsSections(pIn.frames)

\* The branch a git state reports: none when the head is detached.
ReportedBranch(st) == IF st.head = "(detached)" THEN null ELSE Some(st.head)

\* C9: a stream with no start-marker line and no end-marker line splits into
\* exactly one section with repo = null whose body is the whole input trimmed;
\* aggregating it gives repos = [] and, for the direct output of a repository,
\* the branch git reported.
C9_LegacyMode ==
    /\ (pPc \in {"split", "built"} /\ NoMarkerLine(statusOutput))
          => pSections = <<[repo |-> null, output |-> Trim(statusOutput)]>>
    /\ (pPc = "built" /\ NoMarkerLine(statusOutput)) => pAgg.repos = <<>>
    /\ (pPc = "built" /\ IsDirect(pIn)) => pAgg.branch = ReportedBranch(pIn.repos[1])

\* C9 witness: the direct output of a repository on branch main with changes,
\* aggregated.
C9_Witness ==
    /\ pPc = "built"
    /\ IsDirect(pIn)
    /\ pIn.repos[1].dirty
    /\ NoMarkerLine(statusOutput)
    /\ Len(pSections) = 1
    /\ pAgg.branch = Some("main")
    /\ pAgg.repos = <<>>

\* The named sections of a split result, in order.
NamedSections(sections) ==
    SelectSeq(sections, LAMBDA sec : sec.repo # null /\ sec.repo # Some(""))

----------------------------------------------------------------------------
(* Claims on the entries of the aggregation *)

\* r + '/' + path for a named repository, the path itself for the anonymous one.
Prefixed(name, path) == IF name = null THEN path ELSE name[1] \o "/" \o path

\* The index (staged) or worktree (unstaged) character of a change record says
\* there is a change on that side.
ChangedOn(rec, staged) ==
    /\ rec.kind \in {"1", "2", "u"}
    /\ IF staged THEN rec.x \notin {" ", ".", "?"} ELSE rec.y \notin {" ", "."}

\* An untracked record that names a file.
UntrackedFile(rec) == rec.kind = "?" /\ ~EndsWith(rec.path, "/")

\* The repo, fullPath and oldPath the entries of one list must carry, in the
\* order of the sections and of the records in each: for every change record
\* with a change on that side, and after them (unstaged list) for every
\* untracked file.
ExpectedSectionPaths(sec, staged) ==
    LET ofChange == SelectSeq(sec.records, LAMBDA r : ChangedOn(r, staged))
        ofUntracked == IF staged THEN <<>> ELSE SelectSeq(sec.records, UntrackedFile)
    IN  [k \in 1..Len(ofChange) |->
            [repo |-> sec.name,
             fullPath |-> Prefixed(sec.name, ofChange[k].path),
             oldPath |-> IF ofChange[k].orig # ""
                         THEN Some(Prefixed(sec.name, ofChange[k].orig)) ELSE null]]
        \o [k \in 1..Len(ofUntracked) |->
            [repo |-> sec.name,
             fullPath |-> Prefixed(sec.name, ofUntracked[k].path),
             oldPath |-> null]]
ExpectedPaths(in, staged) ==
    Flatten([i \in 1..Len(in.sections) |-> ExpectedSectionPaths(in.sections[i], staged)])

\* The repo, fullPath and oldPath of the entries of a list.
PathsOf(entries) ==
    [k \in 1..Len(entries) |->
        [repo |-> entries[k].repo, fullPath |-> entries[k].fullPath, oldPath |-> entries[k].oldPath]]

\* C11: every staged or unstaged entry built from a record of a repository
\* named r has repo = r, fullPath = r/path and, for a rename, oldPath =
\* r/origin path, path and origin path being those of git's record
\* ("path<TAB>origPath"); entries of the anonymous section have no repo and the
\* bare paths.
C11_RepoPrefixedPaths ==
    (pPc = "built" /\ pIn.kind = "status")
        => /\ PathsOf(pAgg.stagedFiles) = ExpectedPaths(pIn, TRUE)
           /\ PathsOf(pAgg.unstagedFiles) = ExpectedPaths(pIn, FALSE)

\* What holds of the paths for the records that are no renames.
PrefixedPathsWithoutRenames ==
    (/\ pPc = "built"
     /\ pIn.kind = "status"
     /\ \A i \in 1..Len(pIn.sections) : \A j \in 1..Len(pIn.sections[i].records) :
            pIn.sections[i].records[j].kind # "2")
        => /\ PathsOf(pAgg.stagedFiles) = ExpectedPaths(pIn, TRUE)
           /\ PathsOf(pAgg.unstagedFiles) = ExpectedPaths(pIn, FALSE)

\* The number of records of the input that satisfy a test.
CountRecords(in, Test(_)) ==
    Len(Flatten([i \in 1..Len(in.sections) |-> SelectSeq(in.sections[i].records, Test)]))

\* C12: the staged list has exactly one entry for each change record whose
\* index character is none of ' ', '.', '?', and the unstaged list exactly one
\* for each change record whose worktree character is none of ' ', '.' (next
\* to the entries of the untracked files); a single record is in both lists,
\* in one of them or in neither accordingly.
C12_StagedUnstagedIndependent ==
    (pPc = "built" /\ pIn.kind = "status")
        => /\ Len(pAgg.stagedFiles) = CountRecords(pIn, LAMBDA r : ChangedOn(r, TRUE))
           /\ Len(pAgg.unstagedFiles) =
                  CountRecords(pIn, LAMBDA r : ChangedOn(r, FALSE))
                  + CountRecords(pIn, UntrackedFile)
           /\ \A k \in 1..Len(pAgg.stagedFiles) : pAgg.stagedFiles[k].isStaged
           /\ \A k \in 1..Len(pAgg.unstagedFiles) : ~pAgg.unstagedFiles[k].isStaged
           /\ pAgg.totalStaged = Len(pAgg.stagedFiles)
           /\ pAgg.totalUnstaged = Len(pAgg.unstagedFiles)

\* C12 witness: a single ordinary record, changed in the index and in the work
\* tree, is in both lists.
C12_Witness ==
    /\ pPc = "built"
    /\ pIn.kind = "status"
    /\ Len(pIn.sections) = 1
    /\ Len(pIn.sections[1].records) = 1
    /\ pIn.sections[1].records[1].kind = "1"
    /\ pIn.sections[1].records[1].x = "A"
    /\ pIn.sections[1].records[1].y = "M"
    /\ Len(pAgg.stagedFiles) = 1
    /\ Len(pAgg.unstagedFiles) = 1
    /\ pAgg.stagedFiles[1].status = "added"
    /\ pAgg.unstagedFiles[1].status = "modified"

----------------------------------------------------------------------------
(* Claims on the discovery scan *)

\* The relative paths of a list of repositories.
RelativePaths(list) == [i \in 1..Len(list) |-> list[i].relativePath]

\* C13: at every step of a scan, no directory inside a directory recorded as a
\* repository is queued (so none is visited); no two repositories of the
\* returned list are ancestor and descendant; with repositories at a and a/b
\* the scan of the tree root returns a and not a/b.
C13_StopsAtRepositoryBoundary ==
    /\ scanPc # "rest" =>
          \A d \in 1..Len(scan.discovered) : \A q \in 1..Len(scan.queue) :
              ~IsAncestor(scan.discovered[d].absolutePath, scan.queue[q].path)
    /\ scanPc = "done" =>
          /\ \A i, j \in 1..Len(scanResult) :
                ~IsAncestor(scanResult[i].absolutePath, scanResult[j].absolutePath)
          /\ (scanTree = "nested" /\ scanRoot = "/w") =>
                /\ \E i \in 1..Len(scanResult) : scanResult[i].relativePath = "a"
                /\ \A i \in 1..Len(scanResult) : scanResult[i].relativePath # "a/b"

\* C13 witness: the tree with repositories a and a/b scanned from its root; a
\* is returned, a/b is not, and a/b was never queued.
C13_Witness ==
    /\ scanPc = "done"
    /\ scanTree = "nested"
    /\ scanRoot = "/w"
    /\ {"/w/a", "/w/a/b"} \subseteq ScanTrees[scanTree].git
    /\ RelativePaths(scanResult) = <<"a", "d1/d2/d3/d4">>
    /\ \A q \in 1..Len(scan.queue) : scan.queue[q].path # "/w/a/b"

\* C14: at every step of a scan no directory deeper than MAX_DISCOVERY_DEPTH is
\* queued, at most MAX_DISCOVERY_DIRECTORIES directories have been visited and
\* at most MAX_DISCOVERY_REPOS repositories recorded; the list returned holds
\* exactly the repositories recorded when the loop ended, also when a bound
\* ended it.
C14_ScanBounds ==
    scanPc # "rest" =>
        /\ \A q \in 1..Len(scan.queue) : scan.queue[q].depth <= MAX_DISCOVERY_DEPTH
        /\ scan.scannedDirectories <= MAX_DISCOVERY_DIRECTORIES
        /\ scan.scannedDirectories = scan.index - 1
        /\ Len(scan.discovered) <= MAX_DISCOVERY_REPOS
        /\ scanPc = "done" =>
              /\ Len(scanResult) = Len(scan.discovered)
              /\ {scanResult[i] : i \in 1..Len(scanResult)}
                     = {scan.discovered[i] : i \in 1..Len(scan.discovered)}

\* C14 witness: in the tree of many repositories the scan ends at the
\* repository bound with directories left in the queue, and returns the
\* repositories recorded before.
C14_Witness ==
    /\ scanPc = "done"
    /\ scanTree = "many"
    /\ Len(scan.discovered) = MAX_DISCOVERY_REPOS
    /\ scan.index <= Len(scan.queue)
    /\ Len(scanResult) = MAX_DISCOVERY_REPOS

\* The directory bound ends a scan as well: in the wide tree the scan stops
\* after MAX_DISCOVERY_DIRECTORIES visits with directories left in the queue,
\* and returns the repository it had found.
DirectoryBoundReached ==
    /\ scanPc = "done"
    /\ scanTree = "wide"
    /\ scan.scannedDirectories = MAX_DISCOVERY_DIRECTORIES
    /\ scan.index <= Len(scan.queue)
    /\ Len(scanResult) = 1

\* C15: no repository recorded or returned is the scan root, also when the
\* root has git metadata; each is a directory strictly below the root (depth
\* >= 1) that has git metadata, and its relative path is non-empty, does not
\* start with a '..' segment and leads from the root to it.
ReportedBelowRoot(list) ==
    \A i \in 1..Len(list) :
        /\ list[i].absolutePath # scanRoot
        /\ IsAncestor(scanRoot, list[i].absolutePath)
        /\ list[i].absolutePath \in ScanTrees[scanTree].dirs
        /\ list[i].absolutePath \in ScanTrees[scanTree].git
        /\ list[i].relativePath # ""
        /\ SplitAt(list[i].relativePath, "/")[1] # ".."
        /\ resolve(scanRoot, list[i].relativePath) = list[i].absolutePath
C15_RootNeverReported ==
    scanPc # "rest" => ReportedBelowRoot(scan.discovered) /\ ReportedBelowRoot(scanResult)

\* C15 witness: the scan of a root that is itself a repository returns the
\* repository below it and not the root.
C15_Witness ==
    /\ scanPc = "done"
    /\ scanTree = "two"
    /\ scanRoot = "/w/apps"
    /\ scanRoot \in ScanTrees[scanTree].git
    /\ scanResult = <<[absolutePath |-> "/w/apps/vendor", relativePath |-> "vendor"]>>

\* a < b in the ordinal (code unit) order of strings.
CodeUnitLess(a, b) ==
    LET d == {i \in 1..Min({Len(a), Len(b)}) : CharAt(a, i) # CharAt(b, i)}
    IN  IF d = {} THEN Len(a) < Len(b)
        ELSE CodeOf(CharAt(a, Min(d))) < CodeOf(CharAt(b, Min(d)))

\* C16: the list a scan returns is in ascending ordinal (code unit) order of
\* the relative paths, whatever the names, names that differ in letter case
\* included.
C16_SortedOrdinal ==
    scanPc = "done" =>
        \A i, j \in 1..Len(scanResult) :
            i < j => ~CodeUnitLess(scanResult[j].relativePath, scanResult[i].relativePath)

\* What holds of the order: the list is ascending under localeCompare.
SortedByLocaleCompare ==
    scanPc = "done" =>
        \A i, j \in 1..Len(scanResult) :
            i < j => localeCompare(scanResult[i].relativePath, scanResult[j].relativePath) <= 0

----------------------------------------------------------------------------
(* The discovery cache.                                                       *)

\* What a scan of each tree from each requested root finds.
FreshScan ==
    [tree \in FileSystems, root \in {workingDirectory, OtherRoot} |->
        discoverNestedGitRepos(tree, root)]

\* C17: a call of the cached discovery for root R at time t returns the stored
\* list without scanning iff the cache holds an entry keyed by R with
\* expiresAt > t; otherwise it scans and replaces R's entry by the scan's list
\* with expiresAt = t + 3000, the other entries staying as they are.  No other
\* step of the handlers changes the cache: the tree changing or time passing
\* refreshes nothing.
C17_CachedDiscovery ==
    [][/\ hPc = "discover" =>
            LET R == hReq.cwd
                hit == R \in DOMAIN repoDiscoveryCache /\ repoDiscoveryCache[R].expiresAt > now
            IN  IF hit
                THEN /\ scans' = scans
                     /\ nestedRepos' = repoDiscoveryCache[R].repos
                     /\ repoDiscoveryCache' = repoDiscoveryCache
                ELSE /\ scans' = scans + 1
                     /\ nestedRepos' = FreshScan[disk, R]
                     /\ DOMAIN repoDiscoveryCache' = DOMAIN repoDiscoveryCache \cup {R}
                     /\ repoDiscoveryCache'[R] = [repos |-> nestedRepos', expiresAt |-> now + 3000]
                     /\ \A k \in DOMAIN repoDiscoveryCache \ {R} :
                            repoDiscoveryCache'[k] = repoDiscoveryCache[k]
       /\ hPc # "discover" => repoDiscoveryCache' = repoDiscoveryCache]_vars

\* A request for the working directory answered from its entry after the tree
\* changed: the list used is not what a scan would find now, and it is not the
\* list stored for the other root either.
C17_Witness ==
    /\ hPc = "fanout"
    /\ hReq.cwd = workingDirectory
    /\ scans = 0
    /\ nestedRepos # FreshScan[disk, workingDirectory]
    /\ OtherRoot \in DOMAIN repoDiscoveryCache
    /\ repoDiscoveryCache[OtherRoot].expiresAt > now
    /\ repoDiscoveryCache[OtherRoot].repos # nestedRepos

----------------------------------------------------------------------------
(* Timeouts of the direct command.                                            *)

\* The direct command of the request timed out (ETIMEDOUT or killed).
DirectTimedOut ==
    /\ Len(procResults) > 0
    /\ ~procResults[1].success
    /\ procResults[1].error = "Command timed out"

\* C18: a direct command that times out surfaces to the caller: the response
\* is its 'Command timed out' failure, and neither a scan nor a command in a
\* nested repository follows, whatever the process had written to stderr.
C18_TimeoutSurfacesDirectly ==
    DirectTimedOut =>
        /\ hPc = "done"
        /\ response = Some(procResults[1])
        /\ scans = 0
        /\ Len(procLog) = 1

\* The same for the timed-out commands whose failure does not read as a
\* missing repository to shouldFallbackToNestedRepos.
TimeoutWithoutFallbackTextSurfaces ==
    (DirectTimedOut /\ ~shouldFallbackToNestedRepos(procResults[1])) =>
        /\ hPc = "done"
        /\ response = Some(procResults[1])
        /\ scans = 0
        /\ Len(procLog) = 1

----------------------------------------------------------------------------
(* The fan-out in which every repository fails.                               *)

\* The message recorded for the i-th repository of the list: its failure's
\* error, tagged with the repository's relative path.
TaggedError(i) == "[" \o nestedRepos[i].relativePath \o "] " \o procResults[i + 1].error

\* C19: when every repository of the status / numstat fan-out failed, the
\* response is a failure whose error is the tagged message of the first
\* repository of the sorted list and whose stderr is the tagged messages of
\* all repositories, in the list's order, joined by newlines.
C19_AllRepositoriesFailed ==
    (hPc = "done" /\ FannedOut /\ Succeeded = <<>>)
        => /\ response # null
           /\ ~response[1].success
           /\ response[1].error = TaggedError(1)
           /\ response[1].stderr =
                 Join([i \in 1..Len(nestedRepos) |-> TaggedError(i)], "\n")

\* Two repositories failing with different messages.
C19_Witness ==
    /\ hPc = "done"
    /\ FannedOut
    /\ Len(nestedRepos) = 2
    /\ Succeeded = <<>>
    /\ procResults[2].error # procResults[3].error
    /\ response # null
    /\ ~response[1].success
    /\ response[1].error = "[apps] Command timed out"
    /\ response[1].stderr = "[apps] Command timed out\n[Lib] spawn git ENOENT"

----------------------------------------------------------------------------
(* The sections of the fan-out's stdout.                                      *)

\* The repositories of the list whose command succeeded with some output.
SucceededNonEmpty == SelectSeq(Succeeded, LAMBDA i : procResults[i + 1].stdout # "")

\* The section of the i-th repository: the header with the encoded name, the
\* trimmed output when there is any, the end marker.
SectionOf(i) ==
    LET header == "@@HAPI_REPO " \o encodeURIComponent(nestedRepos[i].relativePath)
        body == Trim(procResults[i + 1].stdout)
    IN  IF body = ""
        THEN header \o "\n" \o "@@HAPI_REPO_END"
        ELSE header \o "\n" \o body \o "\n" \o "@@HAPI_REPO_END"

\* C20 (as stated): the stdout of a successful status / numstat fan-out is the
\* newline-joined sections of the repositories that succeeded with non-empty
\* output; a repository that succeeded with empty output has no section.
C20_OnlyNonEmptyWrapped ==
    (hPc = "done" /\ FannedOut /\ Succeeded # <<>>)
        => response[1].stdout =
              Join([k \in 1..Len(SucceededNonEmpty) |-> SectionOf(SucceededNonEmpty[k])], "\n")

\* C20 (amended): the stdout of a successful status / numstat fan-out is the
\* newline-joined sections of all the repositories that succeeded, in the
\* list's order; a repository that succeeded with empty output has a section
\* made of the header and the end marker alone.
C20_EverySuccessWrapped ==
    (hPc = "done" /\ FannedOut /\ Succeeded # <<>>)
        => response[1].stdout =
              Join([k \in 1..Len(Succeeded) |-> SectionOf(Succeeded[k])], "\n")

\* apps succeeded with no output and Lib with some: two sections.
C20_Witness ==
    /\ hPc = "done"
    /\ FannedOut
    /\ hReq.op = "numstat"
    /\ Len(nestedRepos) = 2
    /\ Succeeded = <<1, 2>>
    /\ procResults[2].stdout = ""
    /\ procResults[3].stdout # ""
    /\ response[1].stdout =
          "@@HAPI_REPO apps\n@@HAPI_REPO_END\n@@HAPI_REPO Lib\n"
              \o Trim(procResults[3].stdout) \o "\n@@HAPI_REPO_END"

----------------------------------------------------------------------------
(* The number of processes of a request.                                      *)

\* The commands of the request's log run in the i-th repository of the list.
QueriesOf(i) == {k \in 2..Len(procLog) : procLog[k].cwd = nestedRepos[i].absolutePath}

\* C21: a finished status / numstat fan-out has run one command in every
\* repository of the list, whatever the commands before it returned, and none
\* twice; a request never has more than 1 + N invocations in its log for the
\* N <= 64 repositories of the list, and a diffFile request never more than 2.
C21_EachRepositoryOnce ==
    /\ Len(nestedRepos) <= 64
    /\ Len(procLog) <= 1 + Len(nestedRepos)
    /\ hReq.op = "diffFile" => Len(procLog) <= 2
    /\ FannedOut => \A i \in 1..Len(nestedRepos) : Cardinality(QueriesOf(i)) <= 1
    /\ (FannedOut /\ hPc = "done") =>
          /\ Len(procLog) = 1 + Len(nestedRepos)
          /\ \A i \in 1..Len(nestedRepos) : Cardinality(QueriesOf(i)) = 1

\* The first repository's command timed out and the second one was still run.
C21_Witness ==
    /\ hPc = "done"
    /\ FannedOut
    /\ Len(nestedRepos) = 2
    /\ procResults[2].success = FALSE
    /\ procResults[2].error = "Command timed out"
    /\ Len(procLog) = 3
    /\ procLog[3].cwd = "/w/Lib"
    /\ QueriesOf(1) = {2}
    /\ QueriesOf(2) = {3}

----------------------------------------------------------------------------
(* The sections of a stream, line by line.                                    *)

IsStartMarker(line) == StartsWith(line, "@@HAPI_REPO ")
IsEndMarker(line) == ~IsStartMarker(line) /\ Trim(line) = "@@HAPI_REPO_END"

\* The sections a stream has by its marker lines: none when no line is a
\* marker; otherwise one per start marker, in the order of the stream, named
\* by the decoded rest of the marker line and holding the lines up to the next
\* marker line of either kind, or up to the end of the stream, trimmed.
MarkedSections(rawOutput) ==
    \* 12 = "@@HAPI_REPO ".length
    LET lines == SplitAt(rawOutput, "\n")
        starts == {i \in DOMAIN lines : IsStartMarker(lines[i])}
        markers == {i \in DOMAIN lines : IsStartMarker(lines[i]) \/ IsEndMarker(lines[i])}
        NthStart(k) == CHOOSE i \in starts : Cardinality({j \in starts : j < i}) = k - 1
        BodyEnd(i) == Min({j \in markers : j > i} \cup {Len(lines) + 1}) - 1
    IN  [k \in 1..Cardinality(starts) |->
            [repo |-> Some(decodeRepoSectionName(Trim(SliceFrom(lines[NthStart(k)], 12)))),
             output |-> Trim(Join(SubSeq(lines, NthStart(k) + 1, BodyEnd(NthStart(k))), "\n"))]]

HasMarkerLine(rawOutput) ==
    \E i \in DOMAIN SplitAt(rawOutput, "\n") :
        IsStartMarker(SplitAt(rawOutput, "\n")[i]) \/ IsEndMarker(SplitAt(rawOutput, "\n")[i])

\* C22: a start marker closes the section in progress and opens a new one, an
\* end marker closes it, a section still open at the end of the input is
\* emitted, and once the stream has a marker the lines outside an open section
\* are in no section: the result is the one anonymous section of a stream
\* without markers, or the marked sections, all of them named.
C22_SplitStateMachine ==
    pPc \in {"split", "built"} =>
        /\ IF HasMarkerLine(statusOutput)
           THEN pSections = MarkedSections(statusOutput)
           ELSE pSections = <<[repo |-> null, output |-> Trim(statusOutput)]>>
        /\ \/ Len(pSections) = 1 /\ pSections[1].repo = null
           \/ \A i \in DOMAIN pSections : pSections[i].repo # null

\* A line before the first marker, a section closed by the next start marker
\* and a section left open at the end of the stream.
C22_Witness ==
    /\ pPc = "split"
    /\ statusOutput = "# branch.head main\n@@HAPI_REPO a\n@@HAPI_REPO my%20repo"
    /\ pSections = <<[repo |-> Some("a"), output |-> ""],
                     [repo |-> Some("my repo"), output |-> ""]>>

----------------------------------------------------------------------------
(* Pruned directories.                                                        *)

\* A directory name discovery prunes: a name of the pruned set or a hidden one.
PrunedName(name) == name \in SKIPPED_DIRECTORY_NAMES \/ (name # "" /\ CharAt(name, 1) = ".")

\* A path with a pruned segment.
HasPrunedSegment(path) ==
    \E parts \in {SplitAt(path, "/")} : \E k \in DOMAIN parts : PrunedName(parts[k])

\* C23: no directory queued by a scan has, below the scanned root, a segment
\* that is a pruned name (so none is read or tested for metadata), no
\* repository recorded or returned has such a segment in its relative path,
\* and the repositories the tree holds inside pruned directories are not in the
\* returned list.
C23_PrunedNeverVisited ==
    /\ scanPc # "rest" =>
          /\ \A q \in 2..Len(scan.queue) :
                ~HasPrunedSegment(SliceFrom(scan.queue[q].path, Len(scanRoot) + 1))
          /\ \A d \in 1..Len(scan.discovered) :
                ~HasPrunedSegment(scan.discovered[d].relativePath)
    /\ scanPc = "done" =>
          /\ \A i \in 1..Len(scanResult) : ~HasPrunedSegment(scanResult[i].relativePath)
          /\ \A i \in 1..Len(scanResult) :
                scanResult[i].absolutePath \notin {"/w/.hidden", "/w/build/out", "/w/node_modules/dep"}

\* The scan of a tree holding the repositories .hidden and build/out next to
\* others has returned, and neither was queued.
C23_Witness ==
    /\ scanPc = "done"
    /\ scanTree = "nested"
    /\ scanRoot = "/w"
    /\ {"/w/.hidden", "/w/build/out"} \subseteq ScanTrees[scanTree].git
    /\ Len(scanResult) > 0
    /\ \A q \in 1..Len(scan.queue) :
          scan.queue[q].path \notin {"/w/.hidden", "/w/build", "/w/build/out"}

----------------------------------------------------------------------------
(* Untracked paths.                                                           *)

\* The untracked paths of the inputs and the names of their sections.
UntrackedPaths == {r.path : r \in UntrackedRecords}
SectionNamesOf(in) == {in.sections[i].name : i \in 1..Len(in.sections)}

\* How many untracked records of the repository named name have the path.
UntrackedCount(in, name, path) ==
    Cardinality({<<i, j>> \in (1..Len(in.sections)) \X (1..MaxRecords) :
                    /\ in.sections[i].name = name
                    /\ j <= Len(in.sections[i].records)
                    /\ in.sections[i].records[j].kind = "?"
                    /\ in.sections[i].records[j].path = path})

\* The entries of a list for a path of a repository, the path taken with or
\* without its trailing separator.
EntriesAt(entries, name, path) ==
    {k \in 1..Len(entries) :
        /\ entries[k].repo = name
        /\ \/ entries[k].fullPath = Prefixed(name, path)
           \/ EndsWith(path, "/")
              /\ entries[k].fullPath = Prefixed(name, SubSeq(path, 1, Len(path) - 1))}

\* C24: an untracked path ending in '/' has no entry in either list; every
\* other untracked path has exactly one unstaged entry per record, with status
\* 'untracked', isStaged false and no added or removed lines, and no staged
\* entry.
C24_UntrackedEntries ==
    (pPc = "built" /\ pIn.kind = "status") =>
        \A name \in SectionNamesOf(pIn), path \in UntrackedPaths :
            /\ EntriesAt(pAgg.stagedFiles, name, path) = {}
            /\ Cardinality(EntriesAt(pAgg.unstagedFiles, name, path)) =
                  IF EndsWith(path, "/") THEN 0 ELSE UntrackedCount(pIn, name, path)
            /\ \A k \in EntriesAt(pAgg.unstagedFiles, name, path) :
                  /\ pAgg.unstagedFiles[k].status = "untracked"
                  /\ ~pAgg.unstagedFiles[k].isStaged
                  /\ pAgg.unstagedFiles[k].linesAdded = 0
                  /\ pAgg.unstagedFiles[k].linesRemoved = 0

\* A repository reporting the directory placeholder tmp/ and the file
\* new-file.ts: one unstaged entry, for the file.
C24_Witness ==
    /\ pPc = "built"
    /\ pIn.kind = "status"
    /\ Len(pIn.sections) = 1
    /\ pIn.sections[1].name = Some("a")
    /\ UntrackedCount(pIn, Some("a"), "tmp/") = 1
    /\ UntrackedCount(pIn, Some("a"), "new-file.ts") = 1
    /\ pAgg.stagedFiles = <<>>
    /\ Len(pAgg.unstagedFiles) = 1
    /\ pAgg.unstagedFiles[1].fullPath = "a/new-file.ts"
    /\ pAgg.unstagedFiles[1].status = "untracked"

----------------------------------------------------------------------------
(* The status of an entry.                                                    *)

\* The table of the status characters, and the table with the untracked
\* character as well.
StatusTable(c) ==
    CASE c = "M" -> "modified"
      [] c = "A" -> "added"
      [] c = "D" -> "deleted"
      [] c \in {"R", "C"} -> "renamed"
      [] c = "U" -> "conflicted"
      [] OTHER -> "modified"
StatusTableWithUntracked(c) == IF c = "?" THEN "untracked" ELSE StatusTable(c)

\* The entries of a list that are built from change records, in the order of
\* the list: all of the staged list, and of the unstaged list those of each
\* section that precede the entries of its untracked files.
ChangeCharsOf(sec, staged) ==
    LET changed == SelectSeq(sec.records, LAMBDA r : ChangedOn(r, staged))
    IN  [k \in 1..Len(changed) |-> IF staged THEN changed[k].x ELSE changed[k].y]
UntrackedMarks(sec, staged) ==
    IF staged THEN <<>>
    ELSE [k \in 1..Len(SelectSeq(sec.records, UntrackedFile)) |-> "untracked file"]
\* Per entry of a list: the status character of its change record, or the
\* mark of an untracked file.
EntryChars(in, staged) ==
    Flatten([i \in 1..Len(in.sections) |->
                ChangeCharsOf(in.sections[i], staged) \o UntrackedMarks(in.sections[i], staged)])

\* C25 (as stated): the status of every entry built from a change record is
\* modified for M, added for A, deleted for D, renamed for R and C, conflicted
\* for U and modified for any other index (staged entry) or worktree (unstaged
\* entry) character.
C25_StatusTable ==
    (pPc = "built" /\ pIn.kind = "status") =>
        /\ Len(pAgg.stagedFiles) = Len(EntryChars(pIn, TRUE))
        /\ Len(pAgg.unstagedFiles) = Len(EntryChars(pIn, FALSE))
        /\ \A k \in 1..Len(pAgg.stagedFiles) :
              pAgg.stagedFiles[k].status = StatusTable(EntryChars(pIn, TRUE)[k])
        /\ \A k \in 1..Len(pAgg.unstagedFiles) :
              EntryChars(pIn, FALSE)[k] # "untracked file" =>
                  pAgg.unstagedFiles[k].status = StatusTable(EntryChars(pIn, FALSE)[k])

\* C25 (amended): the same with the character '?' mapped to untracked.
C25_StatusTableWithUntracked ==
    (pPc = "built" /\ pIn.kind = "status") =>
        /\ Len(pAgg.stagedFiles) = Len(EntryChars(pIn, TRUE))
        /\ Len(pAgg.unstagedFiles) = Len(EntryChars(pIn, FALSE))
        /\ \A k \in 1..Len(pAgg.stagedFiles) :
              pAgg.stagedFiles[k].status = StatusTableWithUntracked(EntryChars(pIn, TRUE)[k])
        /\ \A k \in 1..Len(pAgg.unstagedFiles) :
              EntryChars(pIn, FALSE)[k] # "untracked file" =>
                  pAgg.unstagedFiles[k].status
                      = StatusTableWithUntracked(EntryChars(pIn, FALSE)[k])

\* An unmerged record with the characters U and T: conflicted in the staged
\* list, modified (no case of the table) in the unstaged one.
C25_Witness ==
    /\ pPc = "built"
    /\ pIn.kind = "status"
    /\ Len(pIn.sections) = 1
    /\ Len(pIn.sections[1].records) = 1
    /\ pIn.sections[1].records[1].kind = "u"
    /\ pIn.sections[1].records[1].x = "U"
    /\ pIn.sections[1].records[1].y = "T"
    /\ Len(pAgg.stagedFiles) = 1
    /\ pAgg.stagedFiles[1].status = "conflicted"
    /\ Len(pAgg.unstagedFiles) = 1
    /\ pAgg.unstagedFiles[1].status = "modified"

----------------------------------------------------------------------------
(* Claims on the line loops *)

\* The sample a line of the body was drawn from.
SampleOf(text) == CHOOSE s \in StatusSamples : s.text = text

IsFilesLine(text) == SampleOf(text).part = "files"
IsNotAddedLine(text) == SampleOf(text).part = "notAdded"
IsIgnoredLine(text) == SampleOf(text).part = "ignored"
IsHeadLine(text) == SampleOf(text).part = "head"
IsMalformedLine(text) == SampleOf(text).part = "none"

\* The lines the loop has read.
LinesRead == SubSeq(lnLines, 1, lnIndex - 1)

\* What git wrote in the well-formed change lines read so far, in input order:
\* the two status characters, and the path of a line that is not a rename.
ExpectedFiles ==
    LET ls == SelectSeq(LinesRead, IsFilesLine)
    IN  [k \in DOMAIN ls |-> <<SampleOf(ls[k]).index, SampleOf(ls[k]).workingDir, SampleOf(ls[k]).path>>]

\* The same three of the summary's entries.
ParsedFiles ==
    [k \in DOMAIN lnStatus.files |->
        <<lnStatus.files[k].index, lnStatus.files[k].workingDir,
          IF lnStatus.files[k].from = null THEN lnStatus.files[k].path ELSE "">>]

\* The paths of the well-formed untracked and ignored lines read so far.
ExpectedNotAdded ==
    LET ls == SelectSeq(LinesRead, IsNotAddedLine)
    IN  [k \in DOMAIN ls |-> SampleOf(ls[k]).path]
ExpectedIgnored ==
    LET ls == SelectSeq(LinesRead, IsIgnoredLine)
    IN  [k \in DOMAIN ls |-> SampleOf(ls[k]).path]

\* C26: status parsing never aborts. A line with a recognized prefix that
\* does not match the prefix's format contributes nothing, and the well-formed
\* lines before and after it are all in the summary, in input order: after
\* any number of lines, the summary holds exactly what the well-formed lines
\* read so far say, and the loop reads every line of the body.
C26_MalformedLinesSkipped ==
    lnPc \in {"status", "statusDone"} =>
        /\ ParsedFiles = ExpectedFiles
        /\ lnStatus.notAdded = ExpectedNotAdded
        /\ lnStatus.ignored = ExpectedIgnored
        /\ lnStatus.branch.head =
               (IF SelectSeq(LinesRead, IsHeadLine) # <<>> THEN Some("main") ELSE null)
        /\ lnStatus.branch.ahead = null /\ lnStatus.branch.behind = null
        /\ lnStatus.branch.oid = null /\ lnStatus.branch.upstream = null
        /\ (lnPc = "statusDone" => lnIndex = Len(lnLines) + 1)
        /\ Len(lnLines) \in 1..MaxStatusLines

\* C26 witness: a body of a well-formed change line, a cut-short change line
\* and an untracked line has been read to its end; both well-formed lines are
\* in the summary.
C26_Witness ==
    /\ lnPc = "statusDone"
    /\ Len(lnLines) = 3
    /\ lnLines[1] = "1 .M N... 100644 100644 100644 1111111 2222222 src/app.ts"
    /\ lnLines[2] = "1 .M N... 100644 src/app.ts"
    /\ lnLines[3] = "? new-file.ts"
    /\ Len(lnStatus.files) = 1 /\ lnStatus.files[1].path = "src/app.ts"
    /\ lnStatus.notAdded = <<"new-file.ts">>

\* The numstat lines of the samples that are not numstat lines.
NotNumstatLines == {"warning: LF will be replaced", "x\t1\tbad"}

IsNumstatLine(text) == text \notin NotNumstatLines

\* The sum of one count over the files parsed so far.
RECURSIVE SumOfFiles(_, _, _)
SumOfFiles(files, field, k) ==
    IF k = 0 THEN 0 ELSE files[k][field] + SumOfFiles(files, field, k - 1)

\* C27: for every numstat body, a file stat that is binary has insertions =
\* deletions = 0, every file stat has changes = insertions + deletions, the
\* totals of the summary are the sums of the per-file insertions, deletions
\* and changes, and the file count is the number of lines that matched the
\* numstat format; '2<TAB>1<TAB>src/app.ts' gives 2, 1 and binary false,
\* '-<TAB>-<TAB>bin/file' gives binary true.
C27_NumstatTotals ==
    lnPc \in {"numstat", "numstatDone", "mapped"} =>
        /\ \A k \in DOMAIN lnDiff.files :
              /\ lnDiff.files[k].binary => lnDiff.files[k].insertions = 0 /\ lnDiff.files[k].deletions = 0
              /\ lnDiff.files[k].changes = lnDiff.files[k].insertions + lnDiff.files[k].deletions
              /\ lnDiff.files[k].file = "src/app.ts" =>
                    /\ lnDiff.files[k].insertions = 2 /\ lnDiff.files[k].deletions = 1
                    /\ ~lnDiff.files[k].binary
              /\ lnDiff.files[k].file \in {"bin/file", "mixed.bin"} <=> lnDiff.files[k].binary
        /\ lnDiff.insertions = SumOfFiles(lnDiff.files, "insertions", Len(lnDiff.files))
        /\ lnDiff.deletions = SumOfFiles(lnDiff.files, "deletions", Len(lnDiff.files))
        /\ lnDiff.changes = SumOfFiles(lnDiff.files, "changes", Len(lnDiff.files))
        /\ lnDiff.changed = Len(SelectSeq(LinesRead, IsNumstatLine))
        /\ Len(lnDiff.files) = lnDiff.changed
        /\ (lnPc # "numstat" => lnIndex = Len(lnLines) + 1)

\* C27 witness: a counted line, a line that is no numstat line and a binary
\* line have been read: two files, totals 2 and 1.
C27_Witness ==
    /\ lnPc = "numstatDone"
    /\ lnLines = <<"2\t1\tsrc/app.ts", "warning: LF will be replaced", "-\t-\tbin/file">>
    /\ lnDiff.changed = 2
    /\ lnDiff.insertions = 2 /\ lnDiff.deletions = 1 /\ lnDiff.changes = 3
    /\ lnDiff.files[2].binary /\ lnDiff.files[2].insertions = 0

\* The numstat paths of the samples written in a rename notation.
RenamePaths ==
    {"src/{old.txt => new.txt}", "docs/{v1 => v2}/guide.md", "README => README.md",
     "lib/{ => core}/util.ts"}

\* prefix + old + suffix and prefix + new + suffix of a path in brace
\* notation, old and new of a path in arrow notation.
RenamedFrom(path) ==
    CASE path = "src/{old.txt => new.txt}" -> "src/old.txt"
      [] path = "docs/{v1 => v2}/guide.md" -> "docs/v1/guide.md"
      [] path = "README => README.md" -> "README"
      [] path = "lib/{ => core}/util.ts" -> "lib//util.ts"
      [] OTHER -> path
RenamedTo(path) ==
    CASE path = "src/{old.txt => new.txt}" -> "src/new.txt"
      [] path = "docs/{v1 => v2}/guide.md" -> "docs/v2/guide.md"
      [] path = "README => README.md" -> "README.md"
      [] path = "lib/{ => core}/util.ts" -> "lib/core/util.ts"
      [] OTHER -> path

\* The three paths a numstat path is looked up by.
LookupPaths(path) == {path, RenamedTo(path), RenamedFrom(path)}

\* The stat of one file of the summary, as the stats map holds it.
StatOfFile(f) == [added |-> f.insertions, removed |-> f.deletions, binary |-> f.binary]

\* The map holds the stat of file k of the summary under the key.
HoldsStatOf(key, k) == key \in DOMAIN lnStats /\ lnStats[key] = StatOfFile(lnDiff.files[k])

\* The normalization of the rename notations, for every renamed file of the summary.
RenamesNormalized ==
    \A k \in DOMAIN lnDiff.files :
        lnDiff.files[k].file \in RenamePaths =>
            normalizeNumstatPath(lnDiff.files[k].file) =
                [newPath |-> RenamedTo(lnDiff.files[k].file),
                 oldPath |-> Some(RenamedFrom(lnDiff.files[k].file))]

----------------------------------------------------------------------------
(* Claims on concurrent requests *)

\* The complete scan of each tree.
ConcDiscovered == [tree \in ConcTrees |-> discoverNestedGitRepos(tree, workingDirectory)]

\* The list is in the order of localeCompare on relativePath.
SortedByRelativePath(list) ==
    \A i, j \in DOMAIN list : i < j => localeCompare(list[i].relativePath, list[j].relativePath) <= 0

\* The array is what a finished scan returned, as it returned it.
ResultOfFinishedScan(id) ==
    \E f \in cFinished :
        /\ f.id = id
        /\ cHeap[id] = f.list
        /\ SortedByRelativePath(f.list)
        /\ f.stable => f.list = ConcDiscovered[f.tree]

\* C29: under any interleaving of concurrent requests on one root, suspended
\* at directory reads and process calls, every list the cached discovery
\* returned is the complete, sorted result of one finished scan and stays as
\* it was returned; the cache entry holds nothing but such a result; the
\* fan-out of a request runs over exactly the list it was given.
C29_ListsWholeAndUnshared ==
    /\ \A r \in DOMAIN cReq :
          cReq[r].repos # 0 =>
              /\ ResultOfFinishedScan(cReq[r].repos)
              /\ cHeap[cReq[r].repos] = cReq[r].snapshot
              /\ (cReq[r].op = "status" /\ cReq[r].pc \in {"fan", "done"} /\ cReq[r].snapshot # <<>>) =>
                    /\ cReq[r].cwds = [k \in 1..cReq[r].idx |-> cReq[r].snapshot[k].absolutePath]
                    /\ cReq[r].pc = "done" => cReq[r].idx = Len(cReq[r].snapshot)
    /\ cCache # null => ResultOfFinishedScan(cCache[1].repos)
    /\ \A f \in cFinished : cHeap[f.id] = f.list
    /\ \A r \in DOMAIN cReq :
          cReq[r].pc \in {"lstat", "readdir"} =>
              /\ cCache # null => cCache[1].repos # cReq[r].id
              /\ \A q \in DOMAIN cReq : cReq[q].repos # cReq[r].id

\* C29 witness: a status request is half-way through the list of its own
\* scan, bb before a as readdir listed them and a before bb in the list,
\* while a diff-file request given the same array by the cache has picked its
\* repository.
C29_Witness ==
    /\ cReq # <<>>
    /\ cReq[1].op = "status" /\ cReq[1].pc = "fan" /\ cReq[1].idx = 1
    /\ cReq[1].repos = cReq[1].id
    /\ cReq[2].op = "diffFile" /\ cReq[2].pc = "proc"
    /\ cReq[2].repos = cReq[1].repos
    /\ cReq[2].cwds = <<"/w/bb">>
    /\ cHeap[cReq[1].repos] = <<[absolutePath |-> "/w/a", relativePath |-> "a"],
                                [absolutePath |-> "/w/bb", relativePath |-> "bb"]>>

----------------------------------------------------------------------------
(* Claims on the diff-file fallback *)

\* The last argument of the second process of the request: the pathspec of
\* the fallback's git diff.
FallbackPathspec == procLog[2].args[Len(procLog[2].args)]

\* The requested file resolves to the directory of a discovered repository.
ResolvesToRepository ==
    \E i \in 1..Len(nestedRepos) : nestedRepos[i].absolutePath = resolve(hReq.cwd, hReq.filePath)

\* C30: in the diffFile fallback a git process is started only in the
\* directory of a discovered repository, with a pathspec that is the file's
\* path relative to that directory, non-empty, not beginning with '..' and not
\* absolute; when the requested path is the directory of the repository
\* itself, the response is the failure 'Invalid git diff file path' and no
\* process is started.
C30_DiffFileInsideRepository ==
    hReq.op = "diffFile" =>
        /\ Len(procLog) <= 2
        /\ Len(procLog) = 2 =>
              /\ \E i \in 1..Len(nestedRepos) : nestedRepos[i].absolutePath = procLog[2].cwd
              /\ procLog[2].args[Len(procLog[2].args) - 1] = "--"
              /\ FallbackPathspec # ""
              /\ ~StartsWith(FallbackPathspec, "..")
              /\ ~StartsWith(FallbackPathspec, "/")
              /\ resolve(hReq.cwd, hReq.filePath) = procLog[2].cwd \o "/" \o FallbackPathspec
        /\ (hPc = "done" /\ nestedRepos # <<>> /\ ResolvesToRepository) =>
              /\ response # null
              /\ ~response[1].success
              /\ StartsWith(response[1].error, "Invalid git diff file path")
              /\ Len(procLog) = 1

\* C30 witness: the diff of 'apps', the directory of the repository apps, was
\* requested; the direct command was the only process and the response is the
\* failure.
C30_Witness ==
    /\ hPc = "done"
    /\ hReq.op = "diffFile"
    /\ hReq.filePath = "apps"
    /\ Len(nestedRepos) = 2
    /\ ResolvesToRepository
    /\ Len(procLog) = 1
    /\ response # null
    /\ response[1].error = "Invalid git diff file path 'apps'"

----------------------------------------------------------------------------
(* Claims on the line counts of the aggregation *)

\* The counts on the numstat line of src/app.ts in the diff of a repository.
StatsCounts(name, staged) ==
    CASE name = Some("a") /\ staged -> <<1, 2>>
      [] name = Some("a") /\ ~staged -> <<3, 4>>
      [] name = Some("pkg/b") /\ staged -> <<5, 6>>
      [] name = Some("pkg/b") /\ ~staged -> <<7, 8>>
      [] OTHER -> IF staged THEN <<9, 10>> ELSE <<11, 12>>

\* The section of the input with the name.
StatsSectionOf(name) == CHOOSE sec \in {pIn.sections[i] : i \in DOMAIN pIn.sections} : sec.name = name

\* The counts an entry of the repository is to carry: those of the line of
\* its own section of the stream, 0 and 0 without such a line.
OwnCounts(name, staged) ==
    IF (IF staged THEN StatsSectionOf(name).stagedDiff ELSE StatsSectionOf(name).unstagedDiff) = "line"
    THEN StatsCounts(name, staged) ELSE <<0, 0>>

\* The entries of a list, reduced to repository and counts.
CountsOfEntries(entries) ==
    [k \in DOMAIN entries |-> <<entries[k].repo, entries[k].linesAdded, entries[k].linesRemoved>>]

\* The entries the sections of the input give, in section order: one staged
\* entry for an index character M, one unstaged entry for a worktree
\* character M.
ExpectedCounts(staged) ==
    LET changed == SelectSeq(pIn.sections,
                             LAMBDA sec : SubSeq(sec.xy, IF staged THEN 1 ELSE 2,
                                                 IF staged THEN 1 ELSE 2) = "M")
    IN  [k \in DOMAIN changed |->
            <<changed[k].name, OwnCounts(changed[k].name, staged)[1],
              OwnCounts(changed[k].name, staged)[2]>>]

----------------------------------------------------------------------------
(* Termination: a scan taken iteration by iteration, and a request taken      *)
(* return by return, in one specification. A behaviour is either a scan       *)
(* (the handler state at rest) or a sequence of requests (the scan state at   *)
(* rest).                                                                     *)

TermInit == Init \/ ScanInit

\* The steps of the handlers are taken while no scan is stepped through, the
\* iterations of a scan while one is.
TermNext ==
    \/ scanPc = "rest" /\ HBegin
    \/ scanPc = "rest" /\ HDirectReturn
    \/ scanPc = "rest" /\ HDiscover
    \/ scanPc = "rest" /\ HFanoutReturn
    \/ scanPc = "rest" /\ HNestedDiffReturn
    \/ scanPc = "rest" /\ HRespond
    \/ scanPc = "rest" /\ Tick
    \/ scanPc = "rest" /\ FsChange
    \/ SNext

\* The handler is suspended at an await: on a git process, or on the
\* discovery (getNestedRepos).
HAwaiting == hPc \in {"direct", "discover", "fanout", "nestedDiff"}

\* What the handler is resumed with: a process returns, or the discovery does.
HReturn == HDirectReturn \/ HDiscover \/ HFanoutReturn \/ HNestedDiffReturn

\* Each directory read (lstat, readdir) and each external process invocation
\* returns: weak fairness of SNext and of HReturn, WF_vars(A) written out as
\* []<>~ENABLED <<A>>_vars \/ []<><<A>>_vars with ENABLED <<A>>_vars as the
\* state predicate it is equal to (an iteration or the return is enabled in
\* every state of a running scan; a return is enabled at every await).
FairReturns ==
    /\ []<>(scanPc # "scanning") \/ []<><<SNext>>_vars
    /\ []<>(~HAwaiting) \/ []<><<HReturn>>_vars

SpecTerm == TermInit /\ [][TermNext]_vars /\ FairReturns

\* C32: a scan never visits more than MAX_DISCOVERY_DIRECTORIES directories,
\* and every scan that was started returns, whatever the tree (deep, wide,
\* with directories that cannot be read); every request a handler has taken
\* up ends, and a request that has ended holds a response object, provided
\* every process invocation and every directory read returns.
C32_ScanAndRequestsTerminate ==
    /\ [](scanPc # "rest" => scan.scannedDirectories <= MAX_DISCOVERY_DIRECTORIES)
    /\ (scanPc = "scanning") ~> (scanPc = "done")
    /\ [](hPc = "done" => response # null)
    /\ (hPc # "idle") ~> (hPc = "done")

\* The directories a scan has visited.
Visited == {scan.queue[i].path : i \in 1..(scan.index - 1)}

\* C32 witness: a scan has returned with the queue exhausted, every queued
\* directory visited, one of them a directory whose readdir threw.
C32_Witness ==
    /\ scanPc = "done"
    /\ scan.index > Len(scan.queue)
    /\ scan.scannedDirectories = Len(scan.queue)
    /\ Visited \cap ScanTrees[scanTree].unreadable # {}

====
